---- MODULE Spec2Model ----
(***************************************************************************)
(* Model of vade-evan-cl: the issuer's revocation-id bookkeeping           *)
(* (application/issuer.rs) and the JWS assertion proofs                    *)
(* (crypto/crypto_utils.rs).                                               *)
(*                                                                         *)
(* Spec            the issuer: one revocation registry, the issuer's       *)
(*                 RevocationIdInformation, issue_credential,              *)
(*                 revoke_credential                                       *)
(* SpecIssue       one call of issue_credential                            *)
(* SpecProof       create_assertion_proof / check_assertion_proof          *)
(* SpecCreate      create_credential_schema, create_credential_definition  *)
(* SpecOrch        the orchestrator's write operations, empty ledger       *)
(* SpecCredential  issue, finish, present, verify, revoke on a published   *)
(*                 schema, definition and registry                         *)
(* SpecConcurrent  two revocations in flight at once                       *)
(* SpecCall        one call of the orchestrator, every method and option   *)
(* SpecMalformed   SpecProof, and the jws loses segments or signature      *)
(*                 bytes                                                   *)
(* SpecUnsigned    documents without a proof, or with a null proof         *)
(* SpecMirrored    revocation where a DID holds the registry of another    *)
(***************************************************************************)
EXTENDS Integers, Sequences, FiniteSets, TLC

(***************************************************************************)
(* Bounds                                                                  *)
(***************************************************************************)
\* largest maximum_credential_count a registry is created with
MaxCount == 2
\* number of credentials issued in one behaviour
MaxCalls == 3

(***************************************************************************)
(* u32.  A u32 is the pair <<high half, low half>> of its 16-bit halves    *)
(* (the model checker's integers are narrower than 2^32).                  *)
(***************************************************************************)
Half == 2^16

U32(n) == <<n \div Half, n % Half>>

U32Max == <<Half - 1, Half - 1>>

U32Lt(a, b) == a[1] < b[1] \/ (a[1] = b[1] /\ a[2] < b[2])

U32Le(a, b) == a = b \/ U32Lt(a, b)

WrappingAdd1(a) ==
    IF a[2] < Half - 1 THEN <<a[1], a[2] + 1>>
    ELSE IF a[1] < Half - 1 THEN <<a[1] + 1, 0>>
    ELSE <<0, 0>>

\* `rev_idx + 1` on u32: an overflow panics in a build with overflow checks
\* and wraps in a build without; otherwise the sum.
Add1(a) ==
    IF a = U32Max
    THEN {[panic |-> TRUE, value |-> U32(0)], [panic |-> FALSE, value |-> U32(0)]}
    ELSE {[panic |-> FALSE, value |-> WrappingAdd1(a)]}

(***************************************************************************)
(* Option<T> is the set of at most one T.                                  *)
(***************************************************************************)
None == {}

Some(x) == {x}

Unwrap(o) == CHOOSE x \in o : TRUE

(***************************************************************************)
(* Inputs                                                                  *)
(***************************************************************************)
\* names of schema properties
Names == {"a", "b"}
\* names of schema properties in the runs of several calls
ChainNames == {"a"}
\* a credential value whose name no schema declares
Extra == "x"

\* CredentialSchema: its properties and its list of required names
SchemasOver(names) == [properties : SUBSET names, required : SUBSET names]

\* CredentialRequest: the names it carries values for, and whether its blinded
\* secrets and their correctness proof are well formed
RequestsOver(names) ==
    [credential_values : SUBSET (names \cup {Extra}), valid_secrets : BOOLEAN]

\* RevocationIdInformation a caller can hand to issue_credential instead of
\* the one written back by the previous call (stale, corrupted, at the limit)
SuppliedInfos ==
    {[next_unused_id |-> U32(1), used_ids |-> {}],
     [next_unused_id |-> U32(1), used_ids |-> {U32(1)}],
     [next_unused_id |-> U32Max, used_ids |-> {}]}

\* RevocationIdInformation of a single call of issue_credential
CallInfos ==
    [next_unused_id : {U32(k) : k \in 1..(MaxCount + 1)} \cup {U32Max},
     used_ids : SUBSET {U32(k) : k \in 1..MaxCount}]

Counts == {U32(k) : k \in 1..MaxCount}

RevokeIds == {U32(k) : k \in 1..MaxCount}

VARIABLES
    rev_reg_def,      \* Option: the revocation registry definition in use
    revocation_info,  \* Option: the RevocationIdInformation the issuer holds
    credentials,      \* revocation_id of every credential issued, in order
    chain,            \* every issue so far was fed the info written back before
    last,             \* the last call and its result
    signing,          \* Option: the arguments of create_assertion_proof
    proof,            \* Option: the AssertionProof it returned
    vc_document,      \* Option: the document text given to check_assertion_proof
    tampered,         \* the document was changed after the proof was attached
    verdict,          \* Option: the last result of check_assertion_proof
    allocated,        \* the DIDs Registry.create has handed out
    documents,        \* DID -> Option: the document Registry.update stored
    task,             \* the orchestrator operation in flight and its position
    returned,         \* what the last orchestrator operation returned
    wallet,           \* the credentials the holder keeps
    other,            \* a second operation and what it returned, set aside
    created           \* Option: the last create_credential_schema or
                      \* create_credential_definition call and its result

issuerVars == <<rev_reg_def, revocation_info, credentials, chain, last>>

proofVars == <<signing, proof, vc_document, tampered, verdict>>

orchVars == <<allocated, documents, task, returned, wallet, other, created>>

vars == <<issuerVars, proofVars, orchVars>>

NoCall ==
    [op |-> "none", result |-> "none", name |-> "", rev_idx |-> None,
     info_in |-> None, info_out |-> None, signed |-> FALSE,
     max |-> None, schema |-> [properties |-> {}, required |-> {}],
     request |-> [credential_values |-> {}, valid_secrets |-> TRUE],
     data |-> {}, signed_values |-> <<>>]

(***************************************************************************)
(* The orchestrator (vade_evan_cl.rs): its operations, the DID documents   *)
(* behind Resolver and Registry, and what issuer and holder keep.          *)
(***************************************************************************)
\* the DIDs Registry.create hands out, in this order
DidOrder == <<"did:1", "did:2", "did:3">>

Dids == {DidOrder[i] : i \in DOMAIN DidOrder}

\* the payload of an operation: whether its text parses, and the fields the
\* operations read
NoPayload ==
    [ok |-> TRUE, schema |-> "", definition |-> "", registry |-> "",
     max |-> None, revocation_id |-> None, credential |-> None,
     presentation |-> None, info |-> None, function |-> ""]

\* no operation is in flight
Idle ==
    [op |-> "none", pc |-> "idle", options |-> "", payload |-> NoPayload,
     did |-> None, resolved |-> <<>>, built |-> None, calls |-> <<>>,
     before |-> None]

\* no operation has returned
NoResult ==
    [op |-> "none", method |-> "", options |-> "", payload |-> NoPayload,
     status |-> "none", value |-> None, info |-> None, reason |-> "",
     calls |-> <<>>, before |-> None]

\* no second operation was called
NoOther == [task |-> Idle, returned |-> NoResult]

\* nothing happens at the orchestrator
NoOrchestrator ==
    /\ allocated = {}
    /\ documents = [d \in Dids |-> None]
    /\ task = Idle
    /\ returned = NoResult
    /\ wallet = {}
    /\ other = NoOther
    /\ created = None

(***************************************************************************)
(* Issuer::create_revocation_registry_definition                           *)
(***************************************************************************)
\* the registry as CryptoIssuer::create_revocation_registry returns it:
\* nothing revoked, one delta_history entry with the initial delta
NewRegistryDefinition(assigned_did, credential_definition, max) ==
    [id |-> assigned_did,
     credential_definition |-> credential_definition,
     registry |-> {},
     registry_delta |-> {},
     delta_history |-> <<{}>>,
     maximum_credential_count |-> max,
     revocation_public_key |-> "rpk",
     tails |-> "tails"]

\* variant: the counter starts at 0
NewRevocationIdInformationFromZero ==
    [next_unused_id |-> U32(0), used_ids |-> {}]

NewRevocationIdInformation ==
    [next_unused_id |-> U32(1), used_ids |-> {}]

CreateRevocationRegistryDefinition(max, signer_ok) ==
    /\ rev_reg_def = None
    /\ IF signer_ok
       THEN /\ rev_reg_def' = Some(NewRegistryDefinition(DidOrder[3], DidOrder[2], max))
            /\ revocation_info' = Some(NewRevocationIdInformation)
            /\ last' = [NoCall EXCEPT !.op = "create", !.result = "Ok",
                            !.max = Some(max),
                            !.info_out = Some(NewRevocationIdInformation)]
       ELSE /\ UNCHANGED <<rev_reg_def, revocation_info>>
            /\ last' = [NoCall EXCEPT !.op = "create", !.result = "ErrSigner",
                            !.max = Some(max)]
    /\ UNCHANGED <<credentials, chain>>
    /\ UNCHANGED proofVars
    /\ UNCHANGED orchVars

(***************************************************************************)
(* Issuer::issue_credential                                                *)
(***************************************************************************)
\* variant: every absent schema property counts as required
MissingRequiredAnyAbsent(schema, request) ==
    {f \in schema.properties : f \notin request.credential_values}

\* schema properties the request has no value for and `required` names
MissingRequired(schema, request) ==
    {f \in schema.properties :
        f \notin request.credential_values /\ f \in schema.required}

\* null_values: the omitted (optional) schema properties, encoded as "null"
NullValues(schema, request) ==
    {f \in schema.properties : f \notin request.credential_values}

\* variant: every value of the request is added to the credential subject
SubjectDataOfRequest(schema, request) == request.credential_values

\* data of the credential subject: the schema properties the request supplied
SubjectData(schema, request) ==
    {f \in schema.properties : f \in request.credential_values}

\* the value the request carries for a name
RequestValue(f) == "value of " \o f

\* Prover::encode_values(null_values): each name with the encoding of "null"
EncodeValues(null_values) == [f \in null_values |-> "null"]

\* variant: the request is handed to the signer as it came
ProcessedValuesAsRequested(schema, request) ==
    [f \in request.credential_values |-> RequestValue(f)]

\* processed_credential_request.credential_values after the extend(..): the
\* values of the request, and those of null_values on top of them
ProcessedValues(schema, request) ==
    LET encoded == EncodeValues(NullValues(schema, request))
    IN  [f \in request.credential_values \cup DOMAIN encoded |->
            IF f \in DOMAIN encoded THEN encoded[f] ELSE RequestValue(f)]

\* "Get next unused revocation ID for credential, mark as used & increment
\* counter": rev_idx is the counter (the comparison with
\* maximum_credential_count has an empty body), the insert into the copy of
\* used_ids tells whether the id was there, and the new info carries
\* rev_idx + 1.  One record per result the build can produce.
\* variant: the info handed in is returned as the new info, unchecked
AssignRevocationIdKeepingInfo(info, max) ==
    {[reused |-> FALSE, panic |-> FALSE, rev_idx |-> info.next_unused_id,
      new_rev_info |-> info]}

\* variant: the id is marked as used but the counter is not incremented
AssignRevocationIdNoIncrement(info, max) ==
    IF info.next_unused_id \in info.used_ids
    THEN {[reused |-> TRUE, panic |-> FALSE, rev_idx |-> info.next_unused_id,
           new_rev_info |-> info]}
    ELSE {[reused |-> FALSE, panic |-> FALSE, rev_idx |-> info.next_unused_id,
           new_rev_info |->
               [next_unused_id |-> info.next_unused_id,
                used_ids |-> info.used_ids \cup {info.next_unused_id}]]}

\* variant: the id is drawn from the ids not yet used, not read off the counter
AssignRevocationIdAnyUnused(info, max) ==
    {[reused |-> FALSE, panic |-> FALSE, rev_idx |-> id,
      new_rev_info |->
          [next_unused_id |-> info.next_unused_id,
           used_ids |-> info.used_ids \cup {id}]] :
         id \in {U32(k) : k \in 1..(MaxCount + 1)} \ info.used_ids}

\* variant: a counter that has reached maximum_credential_count is refused
AssignRevocationIdRefusingMaximum(info, max) ==
    IF info.next_unused_id \in info.used_ids \/ info.next_unused_id = max
    THEN {[reused |-> TRUE, panic |-> FALSE, rev_idx |-> info.next_unused_id,
           new_rev_info |-> info]}
    ELSE {[reused |-> FALSE, panic |-> s.panic, rev_idx |-> info.next_unused_id,
           new_rev_info |->
               [next_unused_id |-> s.value,
                used_ids |-> info.used_ids \cup {info.next_unused_id}]] :
              s \in Add1(info.next_unused_id)}

\* variant: the result of the insert into used_ids is ignored
AssignRevocationIdUnchecked(info, max) ==
    {[reused |-> FALSE, panic |-> s.panic, rev_idx |-> info.next_unused_id,
      new_rev_info |->
          [next_unused_id |-> s.value,
           used_ids |-> info.used_ids \cup {info.next_unused_id}]] :
         s \in Add1(info.next_unused_id)}

AssignRevocationId(info, max) ==
    IF info.next_unused_id \in info.used_ids
    THEN {[reused |-> TRUE, panic |-> FALSE, rev_idx |-> info.next_unused_id,
           new_rev_info |-> info]}
    ELSE {[reused |-> FALSE, panic |-> s.panic, rev_idx |-> info.next_unused_id,
           new_rev_info |->
               [next_unused_id |-> s.value,
                used_ids |-> info.used_ids \cup {info.next_unused_id}]] :
              s \in Add1(info.next_unused_id)}

\* CryptoIssuer::sign_credential_with_revocation: errors of the CL library
\* (here: blinded secrets whose correctness proof does not verify) surface as
\* an error; the adapter's contract puts no condition on rev_idx
SignCredentialWithRevocation(request, def, rev_idx) ==
    request.valid_secrets

\* variant: the advanced counter is handed back when signing fails
IssueCredentialResultsConsuming(schema, request, def, info) ==
    LET base == [NoCall EXCEPT !.op = "issue", !.info_in = Some(info),
                     !.max = Some(def.maximum_credential_count),
                     !.schema = schema, !.request = request]
    IN  IF MissingRequired(schema, request) # {}
        THEN {[base EXCEPT !.result = "ErrMissingRequired", !.name = f] :
                  f \in MissingRequired(schema, request)}
        ELSE {IF a.reused
                THEN [base EXCEPT !.result = "ErrRevocationIdReused"]
              ELSE IF a.panic
                THEN [base EXCEPT !.result = "Panic"]
              ELSE IF ~SignCredentialWithRevocation(request, def, a.rev_idx)
                THEN [base EXCEPT !.result = "ErrCrypto", !.signed = TRUE,
                          !.info_out = Some(a.new_rev_info)]
              ELSE [base EXCEPT !.result = "Ok", !.signed = TRUE,
                        !.rev_idx = Some(a.rev_idx),
                        !.info_out = Some(a.new_rev_info),
                        !.data = SubjectData(schema, request),
                        !.signed_values = ProcessedValues(schema, request)] :
                  a \in AssignRevocationId(info, def.maximum_credential_count)}

\* every result issue_credential can return on these arguments (the order in
\* which a HashMap yields the schema properties, and the build's overflow
\* behaviour, are not determined by the arguments)
IssueCredentialResults(schema, request, def, info) ==
    LET base == [NoCall EXCEPT !.op = "issue", !.info_in = Some(info),
                     !.max = Some(def.maximum_credential_count),
                     !.schema = schema, !.request = request]
    IN  IF MissingRequired(schema, request) # {}
        THEN {[base EXCEPT !.result = "ErrMissingRequired", !.name = f] :
                  f \in MissingRequired(schema, request)}
        ELSE {IF a.reused
                THEN [base EXCEPT !.result = "ErrRevocationIdReused"]
              ELSE IF a.panic
                THEN [base EXCEPT !.result = "Panic"]
              ELSE IF ~SignCredentialWithRevocation(request, def, a.rev_idx)
                THEN [base EXCEPT !.result = "ErrCrypto", !.signed = TRUE]
              ELSE [base EXCEPT !.result = "Ok", !.signed = TRUE,
                        !.rev_idx = Some(a.rev_idx),
                        !.info_out = Some(a.new_rev_info),
                        !.data = SubjectData(schema, request),
                        !.signed_values = ProcessedValues(schema, request)] :
                  a \in AssignRevocationId(info, def.maximum_credential_count)}

\* what the issuer's log keeps of a call: the result without the arguments
Outcome(r) ==
    [r EXCEPT !.schema = NoCall.schema, !.request = NoCall.request,
              !.data = {}, !.signed_values = <<>>]

\* one call of issue_credential: the result is logged (with the arguments of
\* the call or without), and the caller
\* persists the returned RevocationIdInformation in place of the one it holds
Issue(schema, request, info, with_arguments) ==
    /\ rev_reg_def # None
    /\ \E r \in IssueCredentialResults(schema, request, Unwrap(rev_reg_def), info) :
        /\ last' = (IF with_arguments THEN r ELSE Outcome(r))
        /\ IF r.result = "Ok"
           THEN /\ credentials' = Append(credentials, Unwrap(r.rev_idx))
                /\ revocation_info' = r.info_out
                /\ chain' = (chain /\ Some(info) = revocation_info)
           ELSE UNCHANGED <<credentials, revocation_info, chain>>
    /\ UNCHANGED rev_reg_def
    /\ UNCHANGED proofVars
    /\ UNCHANGED orchVars

IssueCredential(schema, request, info) ==
    /\ Len(credentials) < MaxCalls
    /\ Issue(schema, request, info, FALSE)

(***************************************************************************)
(* Issuer::revoke_credential                                               *)
(***************************************************************************)
\* CryptoIssuer::revoke_credential: the delta of this revocation, or an error
\* when the id is already revoked in the registry
CryptoRevokeCredential(def, revocation_id) ==
    IF revocation_id \in def.registry_delta
    THEN [ok |-> FALSE, delta |-> {}]
    ELSE [ok |-> TRUE, delta |-> {revocation_id}]

\* RevocationRegistryDelta::merge
Merge(full_delta, delta) == full_delta \cup delta

\* RevocationRegistry::from(delta)
RegistryFrom(full_delta) == full_delta

\* variant: the history is started again with the delta of this revocation
RevokedDefinitionHistoryRestarted(def, delta) ==
    [id |-> def.id,
     credential_definition |-> def.credential_definition,
     registry |-> RegistryFrom(Merge(def.registry_delta, delta)),
     registry_delta |-> Merge(def.registry_delta, delta),
     delta_history |-> <<def.delta_history[1], delta>>,
     maximum_credential_count |-> def.maximum_credential_count,
     revocation_public_key |-> def.revocation_public_key,
     tails |-> def.tails]

\* variant: the accumulator of the input is kept
RevokedDefinitionStaleRegistry(def, delta) ==
    [id |-> def.id,
     credential_definition |-> def.credential_definition,
     registry |-> def.registry,
     registry_delta |-> Merge(def.registry_delta, delta),
     delta_history |-> Append(def.delta_history, delta),
     maximum_credential_count |-> def.maximum_credential_count,
     revocation_public_key |-> def.revocation_public_key,
     tails |-> def.tails]

\* variant: the tails generator is not taken over from the input
RevokedDefinitionNewTails(def, delta) ==
    [id |-> def.id,
     credential_definition |-> def.credential_definition,
     registry |-> RegistryFrom(Merge(def.registry_delta, delta)),
     registry_delta |-> Merge(def.registry_delta, delta),
     delta_history |-> Append(def.delta_history, delta),
     maximum_credential_count |-> def.maximum_credential_count,
     revocation_public_key |-> def.revocation_public_key,
     tails |-> "tails2"]

\* the RevocationRegistryDefinition revoke_credential builds, proof: None
RevokedDefinition(def, delta) ==
    [id |-> def.id,
     credential_definition |-> def.credential_definition,
     registry |-> RegistryFrom(Merge(def.registry_delta, delta)),
     registry_delta |-> Merge(def.registry_delta, delta),
     delta_history |-> Append(def.delta_history, delta),
     maximum_credential_count |-> def.maximum_credential_count,
     revocation_public_key |-> def.revocation_public_key,
     tails |-> def.tails]

\* one call of revoke_credential; the caller stores the returned definition
\* in the original definition's place
RevokeCredential(revocation_id, signer_ok) ==
    /\ rev_reg_def # None
    /\ LET def == Unwrap(rev_reg_def)
           r == CryptoRevokeCredential(def, revocation_id)
           base == [NoCall EXCEPT !.op = "revoke",
                        !.rev_idx = Some(revocation_id),
                        !.max = Some(def.maximum_credential_count)]
       IN  IF ~r.ok
           THEN /\ last' = [base EXCEPT !.result = "ErrAlreadyRevoked"]
                /\ UNCHANGED rev_reg_def
           ELSE IF ~signer_ok
           THEN /\ last' = [base EXCEPT !.result = "ErrSigner"]
                /\ UNCHANGED rev_reg_def
           ELSE /\ last' = [base EXCEPT !.result = "Ok"]
                /\ rev_reg_def' = Some(RevokedDefinition(def, r.delta))
    /\ UNCHANGED <<revocation_info, credentials, chain>>
    /\ UNCHANGED proofVars
    /\ UNCHANGED orchVars

\* no assertion proof is being made or checked
NoProof ==
    /\ signing = None
    /\ proof = None
    /\ vc_document = None
    /\ tampered = FALSE
    /\ verdict = None

Init ==
    /\ rev_reg_def = None
    /\ revocation_info = None
    /\ credentials = <<>>
    /\ chain = TRUE
    /\ last = NoCall
    /\ NoProof
    /\ NoOrchestrator

Next ==
    \/ \E max \in Counts, signer_ok \in BOOLEAN :
        CreateRevocationRegistryDefinition(max, signer_ok)
    \/ \E schema \in SchemasOver(ChainNames), request \in RequestsOver(ChainNames),
          info \in revocation_info \cup SuppliedInfos :
        IssueCredential(schema, request, info)
    \/ \E revocation_id \in RevokeIds, signer_ok \in BOOLEAN :
        RevokeCredential(revocation_id, signer_ok)

Spec == Init /\ [][Next]_vars

(***************************************************************************)
(* SpecIssue: one call of issue_credential on arguments drawn from the     *)
(* bounded sets, logged with its arguments.                                *)
(***************************************************************************)
InitIssue ==
    /\ rev_reg_def \in {Some(NewRegistryDefinition(DidOrder[3], DidOrder[2], m)) :
                            m \in Counts}
    /\ revocation_info \in {Some(i) : i \in CallInfos}
    /\ credentials = <<>>
    /\ chain = FALSE
    /\ last = NoCall
    /\ NoProof
    /\ NoOrchestrator

IssueCredentialOnce(schema, request) ==
    /\ last.op = "none"
    /\ Issue(schema, request, Unwrap(revocation_info), TRUE)

NextIssue ==
    \E schema \in SchemasOver(Names), request \in RequestsOver(Names) :
        IssueCredentialOnce(schema, request)

SpecIssue == InitIssue /\ [][NextIssue]_vars

(***************************************************************************)
(* JSON.  A value is a record [t, v]: a string, null, or an object; an     *)
(* object is a function from its keys to values (serde_json::Value), and   *)
(* its text is the sequence of its members <<key, value>> in the order     *)
(* they are written, the value of an object member being its text.         *)
(***************************************************************************)
JStr(s) == [t |-> "str", v |-> s]

JNull == [t |-> "null", v |-> ""]

JObj(o) == [t |-> "obj", v |-> o]

JBool(b) == [t |-> "bool", v |-> IF b THEN "true" ELSE "false"]

\* an array of strings
JArr(strings) == [t |-> "arr", v |-> strings]

\* the compact JWS string: its '.'-separated segments
JJws(segments) == [t |-> "jws", v |-> segments]

\* the keys in the order of serde_json's map (sorted)
AllKeys ==
    <<"a", "additional_properties", "author", "b", "created", "created_at",
      "description", "doc", "iat", "id", "iss", "issuer", "jws", "name",
      "proof", "proofPurpose", "properties", "public_key",
      "public_key_correctness_proof", "required", "schema", "type",
      "verificationMethod">>

RECURSIVE to_string(_)
\* serde_json::to_string / format!("{}", value) of an object
to_string(o) ==
    LET ks == SelectSeq(AllKeys, LAMBDA k : k \in DOMAIN o)
    IN  [i \in 1..Len(ks) |->
            <<ks[i], IF o[ks[i]].t = "obj"
                     THEN JObj(to_string(o[ks[i]].v))
                     ELSE o[ks[i]]>>]

RECURSIVE from_str(_)
\* serde_json::from_str of the text of an object (of two members with the
\* same key the later one stays)
from_str(text) ==
    [k \in {text[i][1] : i \in DOMAIN text} |->
        LET i == CHOOSE i \in DOMAIN text :
                    /\ text[i][1] = k
                    /\ \A j \in DOMAIN text : text[j][1] = k => j <= i
            val == text[i][2]
        IN  IF val.t = "obj" THEN JObj(from_str(val.v)) ELSE val]

\* characters of an unpadded base64url segment of n bytes
Base64Chars(n) == (4 * n + 2) \div 3

RECURSIVE StringsLen(_)
\* number of bytes of the strings of an array, quotes included
StringsLen(strings) ==
    IF strings = <<>> THEN 0
    ELSE Len(Head(strings)) + 2 + StringsLen(Tail(strings))

RECURSIVE ByteLen(_)
\* number of bytes of the text of an object
ByteLen(text) ==
    LET ValLen(val) ==
            CASE val.t = "str" -> Len(val.v) + 2
              [] val.t = "null" -> 4
              [] val.t = "bool" -> Len(val.v)
              [] val.t = "arr" ->
                    2 + StringsLen(val.v)
                      + (IF Len(val.v) > 1 THEN Len(val.v) - 1 ELSE 0)
              [] val.t = "obj" -> ByteLen(val.v)
              [] val.t = "jws" ->
                    2 + (Len(val.v) - 1)
                      + Base64Chars(val.v[1].len) + Base64Chars(val.v[2].len)
                      + Base64Chars(val.v[3].len)
        RECURSIVE Sum(_)
        Sum(i) == IF i = 0 THEN 0
                  ELSE Sum(i - 1) + Len(text[i][1]) + 3 + ValLen(text[i][2])
    IN  2 + Sum(Len(text)) + (IF Len(text) > 1 THEN Len(text) - 1 ELSE 0)

\* the object without one key (Map::remove)
Without(o, key) == [k \in DOMAIN o \ {key} |-> o[k]]

\* the object with a member set (insert or replace)
With(o, key, val) == [k \in DOMAIN o \cup {key} |-> IF k = key THEN val ELSE o[k]]

(***************************************************************************)
(* base64url (data_encoding::BASE64URL: padded, canonical).  A segment is  *)
(* the bytes it encodes, their number, and the number of '=' at its end.   *)
(***************************************************************************)
PadOf(n) == (3 - (n % 3)) % 3

Base64UrlEncode(bytes, n) == [bytes |-> bytes, len |-> n, pad |-> PadOf(n)]

\* trim_end_matches('=')
TrimPad(seg) == [seg EXCEPT !.pad = 0]

\* format!("{}=", ..), format!("{}==", ..), ..
AppendPad(seg, n) == [seg EXCEPT !.pad = @ + n]

\* BASE64URL.decode: the padding has to be exactly the one of the length
Base64UrlDecode(seg) ==
    IF seg.pad = PadOf(seg.len) THEN Some(seg.bytes) ELSE None

\* the match cascade: decode as is, then with 1, .., tries more '='
\* variant: the segment is decoded as it is, no '=' is appended
DecodeTolerantAsIs(seg, tries) ==
    Base64UrlDecode(seg)

DecodeTolerant(seg, tries) ==
    LET ok == {n \in 0..tries : Base64UrlDecode(AppendPad(seg, n)) # None}
    IN  IF ok = {} THEN None
        ELSE Base64UrlDecode(AppendPad(seg, CHOOSE n \in ok : \A m \in ok : n <= m))

(***************************************************************************)
(* SHA-256, secp256k1 with recovery, Keccak address                        *)
(***************************************************************************)
\* Sha256 of header "." data: a digest stands for exactly one input
Sha256(header_and_data) == [sha256 |-> header_and_data]

\* format!("0x{}", hex::encode(hash))
HexMessage(hash) == [hex |-> hash]

PrivateKeys == {"sk1", "sk2"}

\* lowercase hex of Keccak256(public key)[12..32]
AddressOf(key) ==
    CASE key = "sk1" -> "aa11"
      [] key = "sk2" -> "bb22"
      [] OTHER -> "cc33"

\* signer.sign_message: 64 bytes r, s over the digest and the recovery byte
\* v, which is the recovery id or the recovery id plus 27
SignMessage(message, private_key, v) ==
    [rs |-> [key |-> private_key, digest |-> message.hex,
             recid |-> IF v < 27 THEN v ELSE v - 27],
     v |-> v]

\* secp256k1::recover: the signing key for the signed digest and its
\* recovery id, the key of somebody else otherwise
Recover(digest, rs, recid) ==
    IF rs.digest = digest /\ rs.recid = recid THEN rs.key ELSE "unrelated"

(***************************************************************************)
(* create_assertion_proof                                                  *)
(***************************************************************************)
HeaderStr == "{\"typ\":\"JWT\",\"alg\":\"ES256K-R\"}"

HeaderLen == Len(HeaderStr)

Now == "2020-01-01T00:00:00.000Z"

\* the payload that is signed: {"iat": now, "doc": document, "iss": issuer}
DataJson(document_to_sign, issuer) ==
    [k \in {"iat", "doc", "iss"} |->
        CASE k = "iat" -> JStr(Now)
          [] k = "doc" -> JObj(document_to_sign)
          [] k = "iss" -> JStr(issuer)]

\* the proof for a signature with recovery byte v
CreateAssertionProof(document_to_sign, verification_method, issuer, private_key, v) ==
    LET header_encoded == TrimPad(Base64UrlEncode(HeaderStr, HeaderLen))
        data_text == to_string(DataJson(document_to_sign, issuer))
        data_encoded == TrimPad(Base64UrlEncode(data_text, ByteLen(data_text)))
        hash == Sha256(<<header_encoded, data_encoded>>)
        sig_and_rec == SignMessage(HexMessage(hash), private_key, v)
        sig_base64url == TrimPad(Base64UrlEncode(sig_and_rec, 65))
    IN  [k \in {"type", "created", "proofPurpose", "verificationMethod", "jws"} |->
            CASE k = "type" -> JStr("EcdsaPublicKeySecp256k1")
              [] k = "created" -> JStr(Now)
              [] k = "proofPurpose" -> JStr("assertionMethod")
              [] k = "verificationMethod" -> JStr(verification_method)
              [] k = "jws" -> JJws(<<header_encoded, data_encoded, sig_base64url>>)]

(***************************************************************************)
(* check_assertion_proof                                                   *)
(***************************************************************************)
\* recover_address_and_data returns an error, or panics on an index that
\* is out of bounds
RecoverError == [ok |-> FALSE, panic |-> FALSE, address |-> "", data |-> <<>>]

RecoverPanic == [ok |-> FALSE, panic |-> TRUE, address |-> "", data |-> <<>>]

\* recover_address_and_data: the signer's address and the payload text.
\* split[1], split[2] are read whatever the number of segments, and
\* signature_decoded[..64], signature_decoded[64] whatever its length
RecoverAddressAndData(jwt) ==
    IF Len(jwt) < 3
    THEN RecoverPanic
    ELSE
    LET header == jwt[1]
        data == jwt[2]
        signature == jwt[3]
        data_decoded == DecodeTolerant(data, 3)
        signature_decoded == DecodeTolerant(signature, 2)
    IN  IF data_decoded = None \/ signature_decoded = None
        THEN RecoverError
        ELSE IF signature.len < 65
        THEN RecoverPanic
        ELSE LET sig == Unwrap(signature_decoded)
                 hash == Sha256(<<header, data>>)
                 signature_normalized == IF sig.v < 27 THEN sig.v ELSE sig.v - 27
             IN  IF signature_normalized > 3
                 THEN RecoverError
                 ELSE [ok |-> TRUE, panic |-> FALSE,
                       address |-> AddressOf(Recover(hash, sig.rs, signature_normalized)),
                       data |-> Unwrap(data_decoded)]

\* variant: only the names of the members are compared
DocumentsMatchByKeys(vc_without_proof, parsed_caps1_map) ==
    DOMAIN vc_without_proof = DOMAIN parsed_caps1_map

\* vc_without_proof != parsed_caps1_map
DocumentsMatch(vc_without_proof, parsed_caps1_map) ==
    vc_without_proof = parsed_caps1_map

\* variant: every address is accepted
AddressMatchesAny(address, signer_address) == TRUE

\* address != signer_address, address being "0x" and the recovered hex
AddressMatches(address, signer_address) ==
    ("0x" \o address) = signer_address

Verdict(result, why, signer_address) ==
    [result |-> result, why |-> why, signer_address |-> signer_address]

\* variant: only a document without a proof member counts as unsigned
ProofIsNullWhenAbsent(vc) == "proof" \notin DOMAIN vc

\* vc["proof"].is_null(): the member is missing or null
ProofIsNull(vc) == "proof" \notin DOMAIN vc \/ vc["proof"].t = "null"

CheckAssertionProof(vc_text, signer_address) ==
    LET vc == from_str(vc_text)
    IN  IF ProofIsNull(vc)
        THEN Verdict("Ok", "vcs without a proof are considered as valid", signer_address)
        ELSE
        LET vc_without_proof == Without(vc, "proof")
            vc_proof == vc["proof"]
        IN  IF vc_proof.t # "obj" \/ "jws" \notin DOMAIN vc_proof.v
                \/ vc_proof.v["jws"].t # "jws"
            THEN Verdict("ErrBadProof", "could not get jws from vc proof", signer_address)
            ELSE
            LET rec == RecoverAddressAndData(vc_proof.v["jws"].v)
            IN  IF rec.panic
                THEN Verdict("Panic", "index out of bounds", signer_address)
                ELSE IF ~rec.ok
                THEN Verdict("ErrBadProof", "could not recover address and data", signer_address)
                ELSE
                LET payload == from_str(rec.data)
                IN  IF "doc" \notin DOMAIN payload \/ payload["doc"].t # "obj"
                    THEN Verdict("ErrBadProof", "could not get jws doc as object", signer_address)
                    ELSE IF ~DocumentsMatch(vc_without_proof, payload["doc"].v)
                    THEN Verdict("ErrBadProof",
                                 "recovered VC document and given VC document do not match",
                                 signer_address)
                    ELSE IF "verificationMethod" \notin DOMAIN vc_proof.v
                            \/ vc_proof.v["verificationMethod"].t # "str"
                    THEN Verdict("ErrBadProof",
                                 "could not get verificationMethod from proof",
                                 signer_address)
                    ELSE IF ~AddressMatches(rec.address, signer_address)
                    THEN Verdict("ErrBadProof",
                                 "recovered and signing given address do not match",
                                 signer_address)
                    ELSE Verdict("Ok", "vc document is valid", signer_address)

(***************************************************************************)
(* SpecProof: a document is signed, the proof is attached, the document    *)
(* may be changed, and the result is checked.                              *)
(***************************************************************************)
DocKeys == {"id", "name", "proof"}

\* the values a member of a document to sign can have
DocValues(k) ==
    CASE k = "id" -> {JStr("s"), JStr("t")}
      [] k = "name" -> {JStr("nm")}
      [] k = "proof" -> {JNull, JStr("p")}

\* the documents (JSON objects) given to create_assertion_proof
Docs ==
    UNION {{d \in [K -> UNION {DocValues(k) : k \in K}] :
                \A k \in K : d[k] \in DocValues(k)} : K \in SUBSET DocKeys}

VerificationMethods == {"did:evan:iss#key-1", "did:evan:other#key-1"}

IssuerDids == {"did:evan:iss"}

\* recovery bytes a signer returns
RecoveryBytes == {0, 1, 27, 28}

\* addresses given to check_assertion_proof: the two keys' addresses and the
\* first in another letter case
SignerAddresses == {"0xaa11", "0xbb22", "0xAA11"}

\* the texts of an object with its members in every order
Orderings(text) ==
    {[i \in DOMAIN text |-> text[p[i]]] :
        p \in {q \in [DOMAIN text -> DOMAIN text] :
                  \A i, j \in DOMAIN text : i # j => q[i] # q[j]}}

\* no issuer operation takes place
NoIssuer ==
    /\ rev_reg_def = None
    /\ revocation_info = None
    /\ credentials = <<>>
    /\ chain = TRUE
    /\ last = NoCall

InitProof ==
    /\ NoIssuer
    /\ NoProof
    /\ NoOrchestrator

\* create_assertion_proof(document_to_sign, verification_method, issuer,
\* private_key, signer); the signer fails or signs with recovery byte v
SignDocument(d, verification_method, issuer, private_key, signer_ok, v) ==
    /\ signing = None
    /\ signing' = Some([document |-> d, verification_method |-> verification_method,
                        issuer |-> issuer, private_key |-> private_key])
    /\ proof' = IF signer_ok
                THEN Some(CreateAssertionProof(d, verification_method, issuer,
                                               private_key, v))
                ELSE None
    /\ UNCHANGED <<vc_document, tampered, verdict>>
    /\ UNCHANGED issuerVars
    /\ UNCHANGED orchVars

\* the caller sets the proof of the document and serializes it
AttachProof ==
    /\ proof # None
    /\ vc_document = None
    /\ \E text \in Orderings(to_string(With(Unwrap(signing).document, "proof",
                                            JObj(Unwrap(proof))))) :
        vc_document' = Some(text)
    /\ UNCHANGED <<signing, proof, tampered, verdict>>
    /\ UNCHANGED issuerVars
    /\ UNCHANGED orchVars

\* the texts that differ from the text in one member other than proof:
\* its value replaced, the member removed, or a member added
TamperedTexts(text) ==
    LET n == Len(text)
        present == {text[i][1] : i \in 1..n}
    IN  {[text EXCEPT ![i] = <<text[i][1], val>>] :
            i \in {j \in 1..n : text[j][1] # "proof"},
            val \in {JStr("s"), JStr("t"), JStr("nm"), JNull}}
        \cup {SubSeq(text, 1, i - 1) \o SubSeq(text, i + 1, n) :
                i \in {j \in 1..n : text[j][1] # "proof"}}
        \cup {Append(text, <<k, val>>) :
                k \in (DocKeys \ {"proof"}) \ present,
                val \in {JStr("s"), JStr("nm")}}

TamperDocument ==
    /\ vc_document # None
    /\ ~tampered
    /\ from_str(Unwrap(vc_document))["proof"].v = Unwrap(proof)
    /\ \E text \in TamperedTexts(Unwrap(vc_document)) :
        /\ from_str(text) # from_str(Unwrap(vc_document))
        /\ vc_document' = Some(text)
    /\ tampered' = TRUE
    /\ verdict' = None
    /\ UNCHANGED <<signing, proof>>
    /\ UNCHANGED issuerVars
    /\ UNCHANGED orchVars

\* the member `key` of an object text set to val
SetMember(text, key, val) ==
    [i \in DOMAIN text |-> IF text[i][1] = key THEN <<key, val>> ELSE text[i]]

\* the member `key` of the proof of a document text set to val
SetProofMember(text, key, val) ==
    [i \in DOMAIN text |->
        IF text[i][1] = "proof" /\ text[i][2].t = "obj"
        THEN <<"proof", JObj(SetMember(text[i][2].v, key, val))>>
        ELSE text[i]]

\* the proof of the document text, parsed
ProofOf(text) == from_str(text)["proof"].v

\* the proof in the document is not the one create_assertion_proof returned
Altered ==
    /\ vc_document # None
    /\ ProofOf(Unwrap(vc_document)) # Unwrap(proof)

\* values a verificationMethod can be replaced with
SwappedMethods == {JStr(vm) : vm \in VerificationMethods} \cup {JNull}

\* the verificationMethod of the attached proof is replaced, the jws is kept
SwapVerificationMethod ==
    /\ vc_document # None
    /\ ~tampered /\ ~Altered
    /\ \E val \in SwappedMethods :
        /\ val # ProofOf(Unwrap(vc_document))["verificationMethod"]
        /\ vc_document' = Some(SetProofMember(Unwrap(vc_document),
                                              "verificationMethod", val))
    /\ verdict' = None
    /\ UNCHANGED <<signing, proof, tampered>>
    /\ UNCHANGED issuerVars
    /\ UNCHANGED orchVars

\* numbers of '=' a segment of the jws can end with
Pads == 0..3

\* segment i of the jws (2: the payload, 3: the signature) is given n '='
\* at its end in place of the ones it has
PadSegment(i, n) ==
    /\ vc_document # None
    /\ ~tampered /\ ~Altered
    /\ LET jws == ProofOf(Unwrap(vc_document))["jws"].v
       IN  /\ jws[i].pad # n
           /\ vc_document' =
                 Some(SetProofMember(Unwrap(vc_document), "jws",
                        JJws([jws EXCEPT ![i] = [@ EXCEPT !.pad = n]])))
    /\ verdict' = None
    /\ UNCHANGED <<signing, proof, tampered>>
    /\ UNCHANGED issuerVars
    /\ UNCHANGED orchVars

CheckDocument(signer_address) ==
    /\ vc_document # None
    /\ verdict' = Some(CheckAssertionProof(Unwrap(vc_document), signer_address))
    /\ UNCHANGED <<signing, proof, vc_document, tampered>>
    /\ UNCHANGED issuerVars
    /\ UNCHANGED orchVars

NextProof ==
    \/ \E d \in Docs, vm \in VerificationMethods, iss \in IssuerDids,
          sk \in PrivateKeys, signer_ok \in BOOLEAN, v \in RecoveryBytes :
        SignDocument(d, vm, iss, sk, signer_ok, v)
    \/ AttachProof
    \/ TamperDocument
    \/ SwapVerificationMethod
    \/ \E i \in {2, 3}, n \in Pads : PadSegment(i, n)
    \/ \E a \in SignerAddresses : CheckDocument(a)

SpecProof == InitProof /\ [][NextProof]_vars

(***************************************************************************)
(* SpecMalformed: as SpecProof, and the jws of the attached proof may lose *)
(* segments or bytes of its signature                                      *)
(***************************************************************************)
\* the jws of the attached proof is replaced by its first n segments
CutJws(n) ==
    /\ vc_document # None
    /\ ~tampered /\ ~Altered
    /\ LET jws == ProofOf(Unwrap(vc_document))["jws"].v
       IN  vc_document' =
              Some(SetProofMember(Unwrap(vc_document), "jws",
                                  JJws(SubSeq(jws, 1, n))))
    /\ verdict' = None
    /\ UNCHANGED <<signing, proof, tampered>>
    /\ UNCHANGED issuerVars
    /\ UNCHANGED orchVars

\* the signature segment is replaced by the encoding of its first n bytes
CutSignature(n) ==
    /\ vc_document # None
    /\ ~tampered /\ ~Altered
    /\ LET jws == ProofOf(Unwrap(vc_document))["jws"].v
       IN  vc_document' =
              Some(SetProofMember(Unwrap(vc_document), "jws",
                     JJws([jws EXCEPT ![3] =
                              TrimPad(Base64UrlEncode(jws[3].bytes, n))])))
    /\ verdict' = None
    /\ UNCHANGED <<signing, proof, tampered>>
    /\ UNCHANGED issuerVars
    /\ UNCHANGED orchVars

\* lengths a cut signature has: without the recovery byte, and half of r, s
CutLengths == {64, 32}

NextMalformed ==
    \/ NextProof
    \/ \E n \in {1, 2} : CutJws(n)
    \/ \E n \in CutLengths : CutSignature(n)

SpecMalformed == InitProof /\ [][NextMalformed]_vars

(***************************************************************************)
(* SpecUnsigned: documents are presented that were never signed, or whose  *)
(* proof was taken out or set to null                                      *)
(***************************************************************************)
\* a document is presented as it is
PresentDocument(d) ==
    /\ vc_document = None
    /\ signing = None
    /\ \E text \in Orderings(to_string(d)) : vc_document' = Some(text)
    /\ UNCHANGED <<signing, proof, tampered, verdict>>
    /\ UNCHANGED issuerVars
    /\ UNCHANGED orchVars

\* the proof member of the presented document is taken out
RemoveProof ==
    /\ vc_document # None
    /\ \E i \in DOMAIN Unwrap(vc_document) :
        /\ Unwrap(vc_document)[i][1] = "proof"
        /\ vc_document' = Some(SubSeq(Unwrap(vc_document), 1, i - 1)
                                \o SubSeq(Unwrap(vc_document), i + 1,
                                          Len(Unwrap(vc_document))))
    /\ verdict' = None
    /\ UNCHANGED <<signing, proof, tampered>>
    /\ UNCHANGED issuerVars
    /\ UNCHANGED orchVars

\* the proof member of the presented document is set to null
NullProof ==
    /\ vc_document # None
    /\ \E i \in DOMAIN Unwrap(vc_document) :
        /\ Unwrap(vc_document)[i] # <<"proof", JNull>>
        /\ Unwrap(vc_document)[i][1] = "proof"
    /\ vc_document' = Some(SetMember(Unwrap(vc_document), "proof", JNull))
    /\ verdict' = None
    /\ UNCHANGED <<signing, proof, tampered>>
    /\ UNCHANGED issuerVars
    /\ UNCHANGED orchVars

NextUnsigned ==
    \/ \E d \in Docs, vm \in VerificationMethods, iss \in IssuerDids,
          sk \in PrivateKeys, signer_ok \in BOOLEAN, v \in RecoveryBytes :
        SignDocument(d, vm, iss, sk, signer_ok, v)
    \/ AttachProof
    \/ \E d \in Docs : PresentDocument(d)
    \/ RemoveProof
    \/ NullProof
    \/ \E a \in SignerAddresses : CheckDocument(a)

SpecUnsigned == InitProof /\ [][NextUnsigned]_vars

(***************************************************************************)
(* Issuer::create_credential_schema, Issuer::create_credential_definition  *)
(***************************************************************************)
AssignedDids == {"did:evan:a1", "did:evan:a2"}

AuthorDids == {"did:evan:iss", "did:evan:iss2"}

\* required_properties as the caller lists them
RequiredLists == {<<>>, <<"a">>}

\* properties: every property is a SchemaProperty of type string
PropertiesValue(properties) ==
    JObj([n \in properties |-> JObj([k \in {"type"} |-> JStr("string")])])

\* variant: the author is the DID the schema is assigned
CredentialSchemaAuthorAssigned(assigned_did, issuer_did, schema_name, description, properties, required_properties, allow_additional_properties) ==
    [k \in {"id", "type", "name", "author", "created_at", "description",
            "properties", "required", "additional_properties", "proof"} |->
        CASE k = "id" -> JStr(assigned_did)
          [] k = "type" -> JStr("EvanVCSchema")
          [] k = "name" -> JStr(schema_name)
          [] k = "author" -> JStr(assigned_did)
          [] k = "created_at" -> JStr(Now)
          [] k = "description" -> JStr(description)
          [] k = "properties" -> PropertiesValue(properties)
          [] k = "required" -> JArr(required_properties)
          [] k = "additional_properties" -> JBool(allow_additional_properties)
          [] k = "proof" -> JNull]

\* the CredentialSchema as it is built, proof: None
CredentialSchema(assigned_did, issuer_did, schema_name, description, properties, required_properties, allow_additional_properties) ==
    [k \in {"id", "type", "name", "author", "created_at", "description",
            "properties", "required", "additional_properties", "proof"} |->
        CASE k = "id" -> JStr(assigned_did)
          [] k = "type" -> JStr("EvanVCSchema")
          [] k = "name" -> JStr(schema_name)
          [] k = "author" -> JStr(issuer_did)
          [] k = "created_at" -> JStr(Now)
          [] k = "description" -> JStr(description)
          [] k = "properties" -> PropertiesValue(properties)
          [] k = "required" -> JArr(required_properties)
          [] k = "additional_properties" -> JBool(allow_additional_properties)
          [] k = "proof" -> JNull]

\* the CredentialDefinition as it is built, proof: None
CredentialDefinition(assigned_did, issuer_did, schema_id) ==
    [k \in {"id", "type", "issuer", "schema", "created_at", "public_key",
            "public_key_correctness_proof", "proof"} |->
        CASE k = "id" -> JStr(assigned_did)
          [] k = "type" -> JStr("EvanZKPCredentialDefinition")
          [] k = "issuer" -> JStr(issuer_did)
          [] k = "schema" -> JStr(schema_id)
          [] k = "created_at" -> JStr(Now)
          [] k = "public_key" -> JStr("pk")
          [] k = "public_key_correctness_proof" -> JStr("kcp")
          [] k = "proof" -> JNull]

\* serde_json::to_value of the artifact: a proof that is None is left out
ToValue(artifact) ==
    IF "proof" \in DOMAIN artifact /\ artifact["proof"].t = "null"
    THEN Without(artifact, "proof")
    ELSE artifact

\* a call of one of the two operations with its arguments
CreateCall(op, assigned_did, issuer_did, properties, required_properties, allow_additional_properties, schema_id, private_key) ==
    [op |-> op, assigned_did |-> assigned_did, issuer_did |-> issuer_did,
     properties |-> properties, required |-> required_properties,
     additional_properties |-> allow_additional_properties,
     schema_id |-> schema_id, private_key |-> private_key,
     status |-> "none", value |-> None]

\* the part the two operations share: the artifact is turned into a JSON
\* value, create_assertion_proof signs it, and the proof is set
SignCreated(call, artifact, verification_method, signer_ok, v) ==
    LET document_to_sign == ToValue(artifact)
        arguments == [document |-> document_to_sign,
                      verification_method |-> verification_method,
                      issuer |-> call.issuer_did,
                      private_key |-> call.private_key]
    IN  /\ created = None
        /\ signing' = Some(arguments)
        /\ IF signer_ok
           THEN LET assertion == CreateAssertionProof(document_to_sign,
                                     verification_method, call.issuer_did,
                                     call.private_key, v)
                IN  /\ proof' = Some(assertion)
                    /\ created' = Some([call EXCEPT !.status = "Ok",
                                           !.value = Some(With(artifact, "proof",
                                                               JObj(assertion)))])
           ELSE /\ proof' = None
                /\ created' = Some([call EXCEPT !.status = "ErrSigner"])
        /\ UNCHANGED <<vc_document, tampered, verdict>>
        /\ UNCHANGED issuerVars
        /\ UNCHANGED <<allocated, documents, task, returned, wallet, other>>

CreateCredentialSchema(assigned_did, issuer_did, properties, required_properties, allow_additional_properties, verification_method, private_key, signer_ok, v) ==
    SignCreated(CreateCall("create_credential_schema", assigned_did, issuer_did,
                           properties, required_properties,
                           allow_additional_properties, "", private_key),
                CredentialSchema(assigned_did, issuer_did, "test_schema",
                                 "Test description", properties,
                                 required_properties, allow_additional_properties),
                verification_method, signer_ok, v)

\* CryptoIssuer::create_credential_definition fails, or the definition is
\* built over the keys it returned and signed
CreateCredentialDefinition(assigned_did, issuer_did, schema_id, crypto_ok, verification_method, private_key, signer_ok, v) ==
    LET call == CreateCall("create_credential_definition", assigned_did,
                           issuer_did, {}, <<>>, FALSE, schema_id, private_key)
    IN  IF crypto_ok
        THEN SignCreated(call,
                         CredentialDefinition(assigned_did, issuer_did, schema_id),
                         verification_method, signer_ok, v)
        ELSE /\ created = None
             /\ created' = Some([call EXCEPT !.status = "ErrCrypto"])
             /\ UNCHANGED proofVars
             /\ UNCHANGED issuerVars
             /\ UNCHANGED <<allocated, documents, task, returned, wallet, other>>

\* the caller serializes the artifact it was returned
SerializeCreated ==
    /\ created # None
    /\ Unwrap(created).value # None
    /\ vc_document = None
    /\ vc_document' = Some(to_string(Unwrap(Unwrap(created).value)))
    /\ UNCHANGED <<signing, proof, tampered, verdict>>
    /\ UNCHANGED issuerVars
    /\ UNCHANGED orchVars

InitCreate ==
    /\ NoIssuer
    /\ NoProof
    /\ NoOrchestrator

NextCreate ==
    \/ \E assigned_did \in AssignedDids, issuer_did \in AuthorDids,
          properties \in SUBSET Names, required_properties \in RequiredLists,
          allow_additional_properties \in BOOLEAN,
          vm \in VerificationMethods, sk \in PrivateKeys,
          signer_ok \in BOOLEAN, v \in RecoveryBytes :
        CreateCredentialSchema(assigned_did, issuer_did, properties,
                               required_properties, allow_additional_properties,
                               vm, sk, signer_ok, v)
    \/ \E assigned_did \in AssignedDids, issuer_did \in AuthorDids,
          schema_id \in AssignedDids, crypto_ok \in BOOLEAN,
          vm \in VerificationMethods, sk \in PrivateKeys,
          signer_ok \in BOOLEAN, v \in RecoveryBytes :
        CreateCredentialDefinition(assigned_did, issuer_did, schema_id, crypto_ok,
                                   vm, sk, signer_ok, v)
    \/ SerializeCreated
    \/ \E signer_address \in SignerAddresses : CheckDocument(signer_address)

SpecCreate == InitCreate /\ [][NextCreate]_vars

(***************************************************************************)
(* Inputs of the orchestrator operations                                   *)
(***************************************************************************)
Methods == {"did:evan", "did:example"}

\* options texts: type "cl" with privateKey and identity; type "cl" alone;
\* another type; no type; a type that is no string; no JSON at all
OptionsInputs == {"cl+auth", "cl", "other", "untyped", "nonstring", "malformed"}

WriteOps ==
    {"vc_zkp_create_credential_schema", "vc_zkp_create_credential_definition",
     "vc_zkp_create_revocation_registry_definition", "vc_zkp_revoke_credential"}

ResolveOps ==
    {"vc_zkp_issue_credential", "vc_zkp_finish_credential",
     "vc_zkp_present_proof", "vc_zkp_request_credential", "vc_zkp_verify_proof"}

PureOps ==
    {"vc_zkp_create_credential_offer", "vc_zkp_create_credential_proposal",
     "vc_zkp_request_proof"}

Ops == WriteOps \cup ResolveOps \cup PureOps \cup {"run_custom_function"}

\* the schema the issuer publishes, and the request of its one property
OrchSchema == [properties |-> {"a"}, required |-> {"a"}]

OrchRequest == [credential_values |-> {"a"}, valid_secrets |-> TRUE]

\* the presentations a holder can hand to a verifier: of a credential of the
\* wallet, made when nothing was revoked in its registry or for the registry
\* as it is published, and their forgeries
Presentations ==
    UNION {{[credential |-> c, accum |-> a, valid |-> v] :
                a \in {{}, Unwrap(documents[c.registry]).artifact.body.registry},
                v \in BOOLEAN} : c \in wallet}

\* the payloads of an operation: a text that does not parse, and the typed
\* payloads with their references drawn from the DIDs and from what issuer
\* and holder keep
PayloadsOf(op) ==
    {[NoPayload EXCEPT !.ok = FALSE]} \cup
    CASE op = "vc_zkp_create_credential_definition" ->
            {[NoPayload EXCEPT !.schema = d] : d \in Dids}
      [] op = "vc_zkp_create_revocation_registry_definition" ->
            {[NoPayload EXCEPT !.definition = d, !.max = Some(m)] :
                d \in Dids, m \in Counts}
      [] op = "vc_zkp_revoke_credential" ->
            {[NoPayload EXCEPT !.registry = d, !.revocation_id = Some(i)] :
                d \in Dids, i \in RevokeIds}
      [] op = "vc_zkp_issue_credential" ->
            {[NoPayload EXCEPT !.definition = d, !.registry = g, !.info = Some(i)] :
                d \in Dids, g \in Dids,
                i \in {j \in revocation_info : j.next_unused_id \in Counts}}
      [] op = "vc_zkp_finish_credential" ->
            {[NoPayload EXCEPT !.credential = Some(c), !.definition = c.definition,
                               !.registry = c.registry] : c \in wallet}
      [] op = "vc_zkp_present_proof" ->
            {[NoPayload EXCEPT !.credential = Some(c), !.schema = c.schema] :
                c \in wallet}
      [] op = "vc_zkp_verify_proof" ->
            {[NoPayload EXCEPT !.presentation = Some(p), !.schema = p.credential.schema] :
                p \in Presentations}
      [] op = "vc_zkp_request_credential" ->
            {[NoPayload EXCEPT !.definition = d, !.schema = s] :
                d \in Dids, s \in Dids}
      [] op = "run_custom_function" ->
            {[NoPayload EXCEPT !.function = f] :
                f \in {"create_master_secret", "generate_safe_prime", "other"}}
      [] OTHER -> {NoPayload}

\* what Resolver.resolve and Registry.create / Registry.update answer
ResolveOutcomes == {"found", "none", "empty", "err"}

RegistryOutcomes == {"ok", "none", "empty", "err"}

(***************************************************************************)
(* ignore_unrelated! and the parsing of options                            *)
(***************************************************************************)
\* parse!(options, "options") as TypeOptions { type: Option<String> }
ParseTypeOptions(options) ==
    CASE options \in {"cl+auth", "cl"} -> [ok |-> TRUE, type |-> Some("cl")]
      [] options = "other" -> [ok |-> TRUE, type |-> Some("bbs")]
      [] options = "untyped" -> [ok |-> TRUE, type |-> None]
      [] OTHER -> [ok |-> FALSE, type |-> None]

IgnoreUnrelated(method, options) ==
    IF method # "did:evan" THEN "Ignored"
    ELSE IF ~ParseTypeOptions(options).ok THEN "ErrMalformed"
    ELSE IF ParseTypeOptions(options).type = Some("cl") THEN "Related"
    ELSE "Ignored"

\* parse!(options, "options") as AuthenticationOptions
ParseAuthenticationOptions(options) == options = "cl+auth"

(***************************************************************************)
(* Artifacts and their serializations                                      *)
(***************************************************************************)
\* a schema, credential definition or revocation registry definition: its
\* id, the DID it refers to (schema of a definition, credential definition
\* of a registry) and the rest of its content; proof: None
Artifact(kind, id, ref, body) ==
    [kind |-> kind, id |-> id, ref |-> ref, body |-> body, proof |-> None]

\* the assertion proof made over a document
AssertionProofOver(document) == [over |-> document]

\* variant: the document goes on without the proof
WithProofUnsigned(document) == document

\* definition.proof = Some(proof)
WithProof(document) ==
    [document EXCEPT !.proof = Some(AssertionProofOver(document))]

\* serde_json::to_string of an artifact, alone or together with private
\* material
Serialized(artifact, private) == [artifact |-> artifact, private |-> private]

(***************************************************************************)
(* Prover and Verifier                                                     *)
(***************************************************************************)
\* Prover::post_process_credential_signature: unblinds and verifies the
\* signature; None on mismatch, a finished signature included
PostProcessCredentialSignature(credential, definition, rev_def) ==
    IF credential.finished
        \/ credential.definition # definition.id
        \/ credential.registry # rev_def.id
    THEN None
    ELSE Some([credential EXCEPT !.finished = TRUE])

\* Prover::present_proof: the sub-proof of the credential with the
\* non-revocation proof for the witness updated to the registry's accumulator
PresentProof(credential, rev_def) ==
    [credential |-> credential,
     accum |-> rev_def.body.registry,
     valid |-> credential.finished]

\* Verifier::verify_proof
VerifyProof(presented_proof, request_schema, rev_def) ==
    IF presented_proof.credential.schema # request_schema
    THEN [status |-> "FAILED", reason |-> "schema"]
    ELSE IF ~presented_proof.valid
    THEN [status |-> "FAILED", reason |-> "proof"]
    ELSE IF presented_proof.accum # rev_def.body.registry
            \/ presented_proof.credential.revocation_id \in rev_def.body.registry
    THEN [status |-> "FAILED", reason |-> "non-revocation"]
    ELSE [status |-> "VERIFIED", reason |-> ""]

(***************************************************************************)
(* The steps of an operation.  An operation runs from one suspension point *)
(* (DID resolve, DID create, signer, DID update) to the next; a step       *)
(* yields the operation suspended at the next point or what it returns.    *)
(***************************************************************************)
Suspended(t, pc) == [task |-> [t EXCEPT !.pc = pc], returned |-> None]

Done(t, status, value, info, reason) ==
    [task |-> Idle,
     returned |-> Some([op |-> t.op, method |-> "did:evan", options |-> t.options,
                        payload |-> t.payload, status |-> status, value |-> value,
                        info |-> info, reason |-> reason, calls |-> t.calls,
                        before |-> t.before])]

Failed(t, status, reason) == Done(t, status, None, None, reason)

\* get_document!: the DID an operation resolves next and the type it parses
\* the document as, None when it has resolved all
NextResolve(t) ==
    LET n == Len(t.resolved)
        p == t.payload
    IN  CASE t.op = "vc_zkp_create_credential_definition" /\ n = 0 ->
                Some(<<p.schema, "schema">>)
          [] t.op = "vc_zkp_create_revocation_registry_definition" /\ n = 0 ->
                Some(<<p.definition, "definition">>)
          [] t.op = "vc_zkp_revoke_credential" /\ n = 0 ->
                Some(<<p.registry, "registry">>)
          [] t.op \in {"vc_zkp_issue_credential", "vc_zkp_finish_credential"} /\ n = 0 ->
                Some(<<p.definition, "definition">>)
          [] t.op \in {"vc_zkp_issue_credential", "vc_zkp_finish_credential"} /\ n = 1 ->
                Some(<<t.resolved[1].ref, "schema">>)
          [] t.op \in {"vc_zkp_issue_credential", "vc_zkp_finish_credential"} /\ n = 2 ->
                Some(<<p.registry, "registry">>)
          [] t.op = "vc_zkp_request_credential" /\ n = 0 ->
                Some(<<p.definition, "definition">>)
          [] t.op = "vc_zkp_request_credential" /\ n = 1 ->
                Some(<<p.schema, "schema">>)
          [] t.op = "vc_zkp_present_proof" /\ n = 0 ->
                Some(<<p.schema, "schema">>)
          [] t.op = "vc_zkp_present_proof" /\ n = 1 ->
                Some(<<Unwrap(p.credential).definition, "definition">>)
          [] t.op = "vc_zkp_present_proof" /\ n = 2 ->
                Some(<<Unwrap(p.credential).registry, "registry">>)
          [] t.op = "vc_zkp_verify_proof" /\ n = 0 ->
                Some(<<p.schema, "schema">>)
          [] t.op = "vc_zkp_verify_proof" /\ n = 1 ->
                Some(<<Unwrap(p.presentation).credential.definition, "definition">>)
          [] t.op = "vc_zkp_verify_proof" /\ n = 2 ->
                Some(<<Unwrap(p.presentation).credential.registry, "registry">>)
          [] OTHER -> None

\* vc_zkp_issue_credential after its documents are resolved
IssueOutcomes(t) ==
    LET definition == t.resolved[1]
        schema == t.resolved[2]
        revocation_definition == t.resolved[3]
    IN  {IF r.result = "Ok"
         THEN Done(t, "Ok",
                   Some([revocation_id |-> Unwrap(r.rev_idx),
                         definition |-> definition.id,
                         schema |-> schema.id,
                         registry |-> revocation_definition.id,
                         finished |-> FALSE]),
                   r.info_out, "")
         ELSE Failed(t, r.result, r.name) :
            r \in IssueCredentialResults(schema.body, OrchRequest,
                                         revocation_definition.body,
                                         Unwrap(t.payload.info))}

\* variant: the updated definition is a copy of the input with the fields
\* of the revocation set, the proof of the input included
RevokedArtifactKeepingProof(t, delta) ==
    LET rev_def == t.resolved[1]
    IN  Suspended([t EXCEPT !.built =
                      Some([artifact |->
                                [rev_def EXCEPT
                                    !.body = RevokedDefinition(rev_def.body, delta)],
                            private |-> {}, info |-> None])],
                  "sign")

\* the updated registry definition of a revocation, up to the call of the
\* signer
RevokedArtifact(t, delta) ==
    LET rev_def == t.resolved[1]
    IN  Suspended([t EXCEPT !.built =
                      Some([artifact |->
                                Artifact("registry", rev_def.id, rev_def.ref,
                                         RevokedDefinition(rev_def.body, delta)),
                            private |-> {}, info |-> None])],
                  "sign")

\* variant: the error of CryptoIssuer::revoke_credential is dropped
RevokeOutcomeIgnoringError(t) ==
    RevokedArtifact(t, {Unwrap(t.payload.revocation_id)})

\* vc_zkp_revoke_credential after the registry definition is resolved:
\* Issuer::revoke_credential up to the call of the signer
RevokeOutcome(t) ==
    LET r == CryptoRevokeCredential(t.resolved[1].body,
                                    Unwrap(t.payload.revocation_id))
    IN  IF ~r.ok
        THEN Failed(t, "ErrAlreadyRevoked", "")
        ELSE RevokedArtifact(t, r.delta)

\* variant: the credential is returned whatever the finalization says
FinishOutcomeUnchecked(t) ==
    Done(t, "Ok",
         Some([Unwrap(t.payload.credential) EXCEPT !.finished = TRUE]), None, "")

\* vc_zkp_finish_credential after its documents are resolved
FinishOutcome(t) ==
    LET c == PostProcessCredentialSignature(Unwrap(t.payload.credential),
                                            t.resolved[1], t.resolved[3])
    IN  IF c = None
        THEN Failed(t, "ErrSignatureInvalid", "")
        ELSE Done(t, "Ok", c, None, "")

\* variant: a proof that does not verify is returned as an error
VerifyOutcomeThrowing(t) ==
    LET v == VerifyProof(Unwrap(t.payload.presentation), t.payload.schema,
                         t.resolved[3])
    IN  IF v.status = "FAILED"
        THEN Failed(t, "ErrBadProof", v.reason)
        ELSE Done(t, "Ok", Some(v), None, "")

\* vc_zkp_verify_proof after its documents are resolved: the
\* ProofVerification is returned as it is
VerifyOutcome(t) ==
    Done(t, "Ok",
         Some(VerifyProof(Unwrap(t.payload.presentation), t.payload.schema,
                          t.resolved[3])),
         None, "")

\* the synchronous part of an operation after its last get_document!
AfterResolved(t) ==
    CASE t.op \in {"vc_zkp_create_credential_definition",
                   "vc_zkp_create_revocation_registry_definition"} ->
            {Suspended(t, "create")}
      [] t.op = "vc_zkp_revoke_credential" -> {RevokeOutcome(t)}
      [] t.op = "vc_zkp_issue_credential" -> IssueOutcomes(t)
      [] t.op = "vc_zkp_finish_credential" -> {FinishOutcome(t)}
      [] t.op = "vc_zkp_present_proof" ->
            {Done(t, "Ok",
                  Some(PresentProof(Unwrap(t.payload.credential), t.resolved[3])),
                  None, "")}
      [] t.op = "vc_zkp_verify_proof" -> {VerifyOutcome(t)}
      [] OTHER -> {Done(t, "Ok", None, None, "")}

\* on to the next get_document!, or to what follows the last
Proceed(t) ==
    IF NextResolve(t) # None THEN {Suspended(t, "resolve")} ELSE AfterResolved(t)

\* variant: the payload is parsed before method and options are looked at
BeginParsingPayloadFirst(op, method, options, payload, before) ==
    LET t == [Idle EXCEPT !.op = op, !.options = options, !.payload = payload,
                          !.before = Some(before)]
        Refused(status) ==
            [task |-> Idle,
             returned |-> Some([NoResult EXCEPT !.op = op, !.method = method,
                                    !.options = options, !.payload = payload,
                                    !.status = status, !.before = Some(before)])]
    IN  IF ~payload.ok
        THEN {Refused("ErrMalformed")}
        ELSE IF IgnoreUnrelated(method, options) # "Related"
        THEN {Refused(IgnoreUnrelated(method, options))}
        ELSE IF op = "run_custom_function"
        THEN {IF payload.function \in {"create_master_secret", "generate_safe_prime"}
              THEN Done(t, "Ok", None, None, "")
              ELSE Refused("Ignored")}
        ELSE IF op \in WriteOps /\ ~ParseAuthenticationOptions(options)
        THEN {Refused("ErrMalformed")}
        ELSE IF ~payload.ok
        THEN {Refused("ErrMalformed")}
        ELSE IF op = "vc_zkp_create_credential_schema"
        THEN {Suspended(t, "create")}
        ELSE Proceed(t)

\* an operation from its call to its first suspension point
Begin(op, method, options, payload, before) ==
    LET t == [Idle EXCEPT !.op = op, !.options = options, !.payload = payload,
                          !.before = Some(before)]
        Refused(status) ==
            [task |-> Idle,
             returned |-> Some([NoResult EXCEPT !.op = op, !.method = method,
                                    !.options = options, !.payload = payload,
                                    !.status = status, !.before = Some(before)])]
    IN  IF IgnoreUnrelated(method, options) # "Related"
        THEN {Refused(IgnoreUnrelated(method, options))}
        ELSE IF op = "run_custom_function"
        THEN {IF payload.function \in {"create_master_secret", "generate_safe_prime"}
              THEN Done(t, "Ok", None, None, "")
              ELSE Refused("Ignored")}
        ELSE IF op \in WriteOps /\ ~ParseAuthenticationOptions(options)
        THEN {Refused("ErrMalformed")}
        ELSE IF ~payload.ok
        THEN {Refused("ErrMalformed")}
        ELSE IF op = "vc_zkp_create_credential_schema"
        THEN {Suspended(t, "create")}
        ELSE Proceed(t)

\* the artifact an operation builds for the DID it was assigned, not yet
\* signed, with the private material and the RevocationIdInformation that
\* come with it
Build(t, did) ==
    CASE t.op = "vc_zkp_create_credential_schema" ->
            [artifact |-> Artifact("schema", did, "", OrchSchema),
             private |-> {}, info |-> None]
      [] t.op = "vc_zkp_create_credential_definition" ->
            [artifact |-> Artifact("definition", did, t.resolved[1].id,
                                   [public_key |-> "pk"]),
             private |-> {"CredentialPrivateKey"}, info |-> None]
      [] t.op = "vc_zkp_create_revocation_registry_definition" ->
            [artifact |-> Artifact("registry", did, t.resolved[1].id,
                                   NewRegistryDefinition(did, t.resolved[1].id,
                                                         Unwrap(t.payload.max))),
             private |-> {"RevocationKeyPrivate", "RevocationIdInformation"},
             info |-> Some(NewRevocationIdInformation)]

\* what the caller does with the result: the issuer keeps the
\* RevocationIdInformation, the holder the credential
Persist(r) ==
    IF r.status # "Ok"
    THEN UNCHANGED <<revocation_info, credentials, wallet>>
    ELSE CASE r.op = "vc_zkp_create_revocation_registry_definition" ->
                /\ revocation_info' = r.info
                /\ UNCHANGED <<credentials, wallet>>
           [] r.op = "vc_zkp_issue_credential" ->
                /\ revocation_info' = r.info
                /\ wallet' = wallet \cup r.value
                /\ UNCHANGED credentials
           [] r.op = "vc_zkp_finish_credential" ->
                /\ wallet' = (wallet \ r.payload.credential) \cup r.value
                /\ UNCHANGED <<revocation_info, credentials>>
           [] OTHER ->
                UNCHANGED <<revocation_info, credentials, wallet>>

Apply(o) ==
    /\ task' = o.task
    /\ IF o.returned = None
       THEN /\ returned' = NoResult
            /\ UNCHANGED <<revocation_info, credentials, wallet>>
       ELSE /\ returned' = Unwrap(o.returned)
            /\ Persist(Unwrap(o.returned))
    /\ UNCHANGED <<other, created>>
    /\ UNCHANGED <<rev_reg_def, chain, last>>
    /\ UNCHANGED proofVars

\* with_call: the task with a call of a collaborator recorded
WithCall(t, call) == [t EXCEPT !.calls = Append(@, call)]

(***************************************************************************)
(* The actions: the call of an operation, and its suspension points        *)
(***************************************************************************)
Start(op, method, options, payload) ==
    /\ task = Idle
    /\ \E o \in Begin(op, method, options, payload, documents) : Apply(o)
    /\ UNCHANGED <<allocated, documents>>

\* the one call of an operation where a single call is looked at
StartOnce(op, method, options, payload) ==
    /\ returned = NoResult
    /\ Start(op, method, options, payload)

\* get_document!: vade.did_resolve(did), element 0, parsed as the type
ResolveDid(outcome) ==
    /\ task.pc = "resolve"
    /\ LET did == Unwrap(NextResolve(task))[1]
           type_name == Unwrap(NextResolve(task))[2]
           t == WithCall(task, <<"resolve", did, outcome>>)
       IN  /\ outcome = "found" => documents[did] # None
           /\ \E o \in (CASE outcome = "err" -> {Failed(t, "ErrRegistry", "resolve")}
                          [] outcome = "empty" -> {Failed(t, "Panic", "resolve")}
                          [] outcome = "none" -> {Failed(t, "ErrUnresolved", type_name)}
                          [] outcome = "found" ->
                                LET doc == Unwrap(documents[did]).artifact
                                IN  IF doc.kind # type_name
                                    THEN {Failed(t, "ErrMalformed", type_name)}
                                    ELSE Proceed([t EXCEPT !.resolved = Append(@, doc)])) :
                Apply(o)
    /\ UNCHANGED <<allocated, documents>>

\* generate_did: vade.did_create, then the artifact is built up to the
\* call of the signer
CreateDid(outcome) ==
    /\ task.pc = "create"
    /\ LET free == {i \in DOMAIN DidOrder : DidOrder[i] \notin allocated}
           generated == IF outcome = "ok" /\ free # {}
                        THEN Some(DidOrder[CHOOSE i \in free : \A j \in free : i <= j])
                        ELSE None
           t == WithCall(task, <<"create", outcome, generated>>)
       IN  IF generated # None
           THEN LET did == Unwrap(generated)
                IN  /\ allocated' = allocated \cup {did}
                    /\ Apply(Suspended([t EXCEPT !.did = Some(did),
                                                 !.built = Some(Build(t, did))],
                                       "sign"))
           ELSE /\ UNCHANGED allocated
                /\ Apply(Failed(t, "ErrRegistry", "create"))
    /\ UNCHANGED documents

\* create_assertion_proof: the signer answers; the proof is set
SignArtifact(signer_ok) ==
    /\ task.pc = "sign"
    /\ LET t == WithCall(task, <<"sign", signer_ok>>)
           b == Unwrap(task.built)
       IN  IF signer_ok
           THEN Apply(Suspended([t EXCEPT !.built =
                                    Some([b EXCEPT !.artifact = WithProof(b.artifact)])],
                                "update"))
           ELSE Apply(Failed(t, "ErrSigner", ""))
    /\ UNCHANGED <<allocated, documents>>

\* variant: the artifact is written under the DID of the document it refers
\* to, when it refers to one
PublishDidOfReference(t) ==
    IF t.resolved # <<>> THEN t.resolved[1].id ELSE Unwrap(t.did)

\* the DID the artifact of an operation is written under
PublishDid(t) ==
    IF t.op = "vc_zkp_revoke_credential" THEN t.resolved[1].id ELSE Unwrap(t.did)

\* variant: what is returned to the caller is what is written
PublishedPayloadWithPrivate(b) == Serialized(b.artifact, b.private)

\* the payload of set_did_document: the artifact alone
PublishedPayload(b) == Serialized(b.artifact, {})

\* variant: the registry merges the revocations of the document it holds
\* into the one it is given
StoredDocumentsMerging(did, payload) ==
    [documents EXCEPT ![did] =
        IF @ = None \/ payload.artifact.kind # "registry"
        THEN Some(payload)
        ELSE Some([payload EXCEPT
                      !.artifact.body.registry =
                          @ \cup Unwrap(documents[did]).artifact.body.registry,
                      !.artifact.body.registry_delta =
                          @ \cup Unwrap(documents[did]).artifact.body.registry_delta])]

\* variant: the write is acknowledged and nothing is stored
StoredDocumentsKept(did, payload) == documents

\* the DID documents after a Registry.update that succeeded
StoredDocuments(did, payload) == [documents EXCEPT ![did] = Some(payload)]

\* variant: the error of set_did_document is dropped
UpdateFailedReturningArtifact(t) ==
    Done(t, "Ok",
         Some(Serialized(Unwrap(t.built).artifact, Unwrap(t.built).private)),
         Unwrap(t.built).info, "")

\* set_did_document returned an error, or no listener answered
UpdateFailed(t) == Failed(t, "ErrRegistry", "update")

\* the answers of vade.did_update that set_did_document takes for success:
\* a list that is not empty, whatever its first element
UpdateAccepted == {"ok", "none"}

\* set_did_document: vade.did_update, then the result is returned
UpdateDid(outcome) ==
    /\ task.pc = "update"
    /\ LET b == Unwrap(task.built)
           did == PublishDid(task)
           t == WithCall(task, <<"update", did, PublishedPayload(b), outcome>>)
       IN  IF outcome \in UpdateAccepted
           THEN /\ documents' = StoredDocuments(did, PublishedPayload(b))
                /\ Apply(Done(t, "Ok", Some(Serialized(b.artifact, b.private)),
                              b.info, ""))
           ELSE /\ UNCHANGED documents
                /\ Apply(UpdateFailed(t))
    /\ UNCHANGED allocated

\* the operation is dropped at the suspension point it waits at
Cancel ==
    /\ task.pc \in {"resolve", "create", "sign", "update"}
    /\ Apply(Failed(task, "Cancelled", task.pc))
    /\ UNCHANGED <<allocated, documents>>

(***************************************************************************)
(* SpecOrch: the operations that write DID documents, called one after the *)
(* other with method "did:evan" and options of type "cl"                   *)
(***************************************************************************)
InitOrch ==
    /\ NoIssuer
    /\ NoProof
    /\ NoOrchestrator

NextOrch ==
    \/ \E op \in WriteOps : \E payload \in PayloadsOf(op) :
        Start(op, "did:evan", "cl+auth", payload)
    \/ \E outcome \in ResolveOutcomes : ResolveDid(outcome)
    \/ \E outcome \in RegistryOutcomes : CreateDid(outcome)
    \/ \E signer_ok \in BOOLEAN : SignArtifact(signer_ok)
    \/ \E outcome \in RegistryOutcomes : UpdateDid(outcome)
    \/ Cancel

SpecOrch == InitOrch /\ [][NextOrch]_vars

(***************************************************************************)
(* SpecCredential: schema, credential definition and revocation registry   *)
(* are published; credentials are issued, finished, presented, verified    *)
(* and revoked                                                             *)
(***************************************************************************)
PublishedSchema ==
    Serialized(WithProof(Artifact("schema", DidOrder[1], "", OrchSchema)), {})

CredentialOps ==
    {"vc_zkp_issue_credential", "vc_zkp_finish_credential", "vc_zkp_present_proof",
     "vc_zkp_verify_proof", "vc_zkp_revoke_credential"}

PublishedDefinition ==
    Serialized(WithProof(Artifact("definition", DidOrder[2], DidOrder[1],
                                  [public_key |-> "pk"])), {})

PublishedRegistry(max) ==
    Serialized(WithProof(Artifact("registry", DidOrder[3], DidOrder[2],
                                  NewRegistryDefinition(DidOrder[3], DidOrder[2],
                                                        max))), {})

InitCredential ==
    /\ NoProof
    /\ rev_reg_def = None
    /\ revocation_info = Some(NewRevocationIdInformation)
    /\ credentials = <<>>
    /\ chain = TRUE
    /\ last = NoCall
    /\ allocated = Dids
    /\ documents = [d \in Dids |->
                        CASE d = DidOrder[1] -> Some(PublishedSchema)
                          [] d = DidOrder[2] -> Some(PublishedDefinition)
                          [] OTHER -> Some(PublishedRegistry(U32(MaxCount)))]
    /\ task = Idle
    /\ returned = NoResult
    /\ wallet = {}
    /\ other = NoOther
    /\ created = None

NextCredential ==
    \/ \E op \in CredentialOps : \E payload \in PayloadsOf(op) :
        Start(op, "did:evan", "cl+auth", payload)
    \/ \E outcome \in ResolveOutcomes : ResolveDid(outcome)
    \/ \E signer_ok \in BOOLEAN : SignArtifact(signer_ok)
    \/ \E outcome \in RegistryOutcomes : UpdateDid(outcome)
    \/ Cancel

SpecCredential == InitCredential /\ [][NextCredential]_vars

(***************************************************************************)
(* SpecConcurrent: two calls of vc_zkp_revoke_credential in flight at the  *)
(* same time on the published registry.  The operation in `task` is the    *)
(* one that takes the next step; the executor turns to the other one at    *)
(* any moment.                                                             *)
(***************************************************************************)
Switch ==
    /\ task' = other.task
    /\ returned' = other.returned
    /\ other' = [task |-> task, returned |-> returned]
    /\ UNCHANGED <<allocated, documents, wallet, created>>
    /\ UNCHANGED issuerVars
    /\ UNCHANGED proofVars

NextConcurrent ==
    \/ \E payload \in PayloadsOf("vc_zkp_revoke_credential") :
        StartOnce("vc_zkp_revoke_credential", "did:evan", "cl+auth", payload)
    \/ \E outcome \in ResolveOutcomes : ResolveDid(outcome)
    \/ \E signer_ok \in BOOLEAN : SignArtifact(signer_ok)
    \/ \E outcome \in RegistryOutcomes : UpdateDid(outcome)
    \/ Cancel
    \/ Switch

SpecConcurrent == InitCredential /\ [][NextConcurrent]_vars

(***************************************************************************)
(* SpecMirrored: the DID registry also answers for a DID whose document is *)
(* the revocation registry definition of another DID; credentials of the   *)
(* registry are revoked through either DID                                 *)
(***************************************************************************)
InitMirrored ==
    /\ NoProof
    /\ rev_reg_def = None
    /\ revocation_info = Some(NewRevocationIdInformation)
    /\ credentials = <<>>
    /\ chain = TRUE
    /\ last = NoCall
    /\ allocated = Dids
    /\ documents = [d \in Dids |->
                        CASE d = DidOrder[2] -> Some(PublishedDefinition)
                          [] OTHER -> Some(PublishedRegistry(U32(MaxCount)))]
    /\ task = Idle
    /\ returned = NoResult
    /\ wallet = {}
    /\ other = NoOther
    /\ created = None

NextMirrored ==
    \/ \E payload \in PayloadsOf("vc_zkp_revoke_credential") :
        Start("vc_zkp_revoke_credential", "did:evan", "cl+auth", payload)
    \/ \E outcome \in ResolveOutcomes : ResolveDid(outcome)
    \/ \E signer_ok \in BOOLEAN : SignArtifact(signer_ok)
    \/ \E outcome \in RegistryOutcomes : UpdateDid(outcome)
    \/ Cancel

SpecMirrored == InitMirrored /\ [][NextMirrored]_vars

(***************************************************************************)
(* SpecCall: one call of an operation, for every method, options and       *)
(* payload, where a schema is published                                    *)
(***************************************************************************)
InitCall ==
    /\ NoIssuer
    /\ NoProof
    /\ allocated = {DidOrder[1]}
    /\ documents = [d \in Dids |-> IF d = DidOrder[1] THEN Some(PublishedSchema) ELSE None]
    /\ task = Idle
    /\ returned = NoResult
    /\ wallet = {}
    /\ other = NoOther
    /\ created = None

NextCall ==
    \/ \E op \in Ops, method \in Methods, options \in OptionsInputs :
        \E payload \in PayloadsOf(op) : StartOnce(op, method, options, payload)
    \/ \E outcome \in ResolveOutcomes : ResolveDid(outcome)
    \/ \E outcome \in RegistryOutcomes : CreateDid(outcome)
    \/ \E signer_ok \in BOOLEAN : SignArtifact(signer_ok)
    \/ \E outcome \in RegistryOutcomes : UpdateDid(outcome)
    \/ Cancel

SpecCall == InitCall /\ [][NextCall]_vars

(***************************************************************************)
(* Properties of the revocation-id counter                                 *)
(***************************************************************************)
IssuedOnChain == chain /\ revocation_info # None

\* C1: starting from the info of create_revocation_registry_definition, after
\* N successful issue_credential calls, each fed the info the previous one
\* returned, next_unused_id = N+1, used_ids = {1..N}, and the k-th call
\* assigned rev_idx = k.
RevocationIdMonotonicity ==
    IssuedOnChain =>
        LET N == Len(credentials)
            info == Unwrap(revocation_info)
        IN  /\ info.next_unused_id = U32(N + 1)
            /\ info.used_ids = {U32(k) : k \in 1..N}
            /\ \A k \in 1..N : credentials[k] = U32(k)

RevocationIdMonotonicityWitness ==
    /\ IssuedOnChain
    /\ Len(credentials) >= 3
    /\ last.op = "issue" /\ last.result = "Ok"

\* C2: over any sequence of issue_credential and revoke_credential operations
\* in which each issue receives the info written back by the previous one, no
\* two issued credentials carry the same revocation_id, a revoked id included.
NoRevocationIdReuse ==
    chain =>
        \A i, j \in 1..Len(credentials) :
            i # j => credentials[i] # credentials[j]

NoRevocationIdReuseWitness ==
    /\ chain
    /\ rev_reg_def # None
    /\ Len(credentials) >= 2
    /\ last.op = "issue" /\ last.result = "Ok"
    /\ \E i \in 1..Len(credentials) :
        credentials[i] \in Unwrap(rev_reg_def).registry

\* C3: in every info reachable from a fresh registry by successful issues,
\* next_unused_id is greater than 0 and than every element of used_ids.
CounterAboveUsedIds ==
    IssuedOnChain =>
        LET info == Unwrap(revocation_info)
        IN  /\ U32Lt(U32(0), info.next_unused_id)
            /\ \A u \in info.used_ids : U32Lt(u, info.next_unused_id)

CounterAboveUsedIdsWitness ==
    /\ IssuedOnChain
    /\ Cardinality(Unwrap(revocation_info).used_ids) >= 2

\* C4: in every info reachable from a fresh registry by successful issues, the
\* number of used ids never exceeds the registry's maximum_credential_count.
UsedIdsWithinMaximum ==
    (IssuedOnChain /\ rev_reg_def # None) =>
        U32Le(U32(Cardinality(Unwrap(revocation_info).used_ids)),
              Unwrap(rev_reg_def).maximum_credential_count)

(***************************************************************************)
(* Properties of one call of issue_credential (SpecIssue)                  *)
(***************************************************************************)
Called == last.op = "issue"

InfoIn == Unwrap(last.info_in)

\* the steps before and after the assignment of the id raise no error
OtherStepsPass ==
    /\ \A f \in last.schema.properties \cap last.schema.required :
        f \in last.request.credential_values
    /\ last.request.valid_secrets
    /\ InfoIn.next_unused_id \notin InfoIn.used_ids
    /\ InfoIn.next_unused_id # U32Max

\* C5: issue_credential called with next_unused_id greater than the registry's
\* maximum_credential_count fails with ErrRegistryFull and issues no
\* credential (stated for calls in which no other step fails).
RegistryFullRejected ==
    (Called /\ OtherStepsPass
        /\ U32Lt(Unwrap(last.max), InfoIn.next_unused_id)) =>
        /\ last.result = "ErrRegistryFull"
        /\ last.rev_idx = None
        /\ last.info_out = None

\* C6, as claimed: issue_credential called with an info whose used_ids contains
\* next_unused_id fails with ErrRevocationIdReused before any signing, and
\* returns no credential and no updated info.
CorruptedCounterRejected ==
    (Called /\ InfoIn.next_unused_id \in InfoIn.used_ids) =>
        /\ last.result = "ErrRevocationIdReused"
        /\ ~last.signed
        /\ last.rev_idx = None
        /\ last.info_out = None

\* C6, amended: such a call fails before any signing and returns no credential
\* and no updated info; the error is ErrRevocationIdReused when the request
\* has a value for every required schema property, and ErrMissingRequired
\* (the earlier check) when it has not.
CorruptedCounterRejectedAfterRequiredCheck ==
    (Called /\ InfoIn.next_unused_id \in InfoIn.used_ids) =>
        /\ ~last.signed
        /\ last.rev_idx = None
        /\ last.info_out = None
        /\ last.result =
            IF \A f \in last.schema.properties \cap last.schema.required :
                   f \in last.request.credential_values
            THEN "ErrRevocationIdReused"
            ELSE "ErrMissingRequired"

CorruptedCounterWitness ==
    /\ Called
    /\ InfoIn = [next_unused_id |-> U32(1), used_ids |-> {U32(1)}]
    /\ last.result = "ErrRevocationIdReused"

\* C7: issue_credential fails with ErrMissingRequired(name), name a required
\* schema property absent from the request, if there is such a property, and
\* does not fail for that reason when every absent schema property is optional.
MissingRequiredRejected ==
    Called =>
        LET absent == {f \in last.schema.properties :
                           f \notin last.request.credential_values}
        IN  IF absent \cap last.schema.required # {}
            THEN /\ last.result = "ErrMissingRequired"
                 /\ last.name \in absent \cap last.schema.required
            ELSE last.result # "ErrMissingRequired"

MissingRequiredWitness ==
    /\ Called
    /\ last.result = "ErrMissingRequired"
    /\ \E f \in last.schema.properties :
        f \notin last.request.credential_values /\ f \notin last.schema.required

(***************************************************************************)
(* Properties of the assertion proofs (SpecProof)                          *)
(***************************************************************************)
Checked == verdict # None

\* "0x" and the address of the key the document was signed with
SignerAddress == "0x" \o AddressOf(Unwrap(signing).private_key)

\* C8: for every document d, verification method, issuer and key sk,
\* check_assertion_proof of d with the proof of create_assertion_proof
\* attached, for the address derived from sk, returns ok.
ProofRoundTrip ==
    (Checked /\ ~tampered /\ Unwrap(verdict).signer_address = SignerAddress) =>
        Unwrap(verdict).result = "Ok"

\* the round trip of the documents that carry no proof member of their own
ProofRoundTripWithoutProofMember ==
    (Checked /\ ~tampered /\ ~Altered
        /\ Unwrap(verdict).signer_address = SignerAddress
        /\ "proof" \notin DOMAIN Unwrap(signing).document) =>
        Unwrap(verdict).result = "Ok"

\* C9: changing any field other than proof of a signed document after the
\* proof was attached makes check_assertion_proof return ErrBadProof.
TamperedDocumentRejected ==
    (Checked /\ tampered) => Unwrap(verdict).result = "ErrBadProof"

TamperedDocumentRejectedWitness ==
    /\ Checked /\ tampered
    /\ "proof" \notin DOMAIN Unwrap(signing).document
    /\ Unwrap(verdict).signer_address = SignerAddress
    /\ Unwrap(verdict).result = "ErrBadProof"

\* C10: check_assertion_proof on a correctly signed document returns
\* ErrBadProof whenever the expected signer address differs from the address
\* recovered from the signature (the address of the signing key).
WrongAddressRejected ==
    (Checked /\ ~tampered /\ Unwrap(verdict).signer_address # SignerAddress) =>
        Unwrap(verdict).result = "ErrBadProof"

WrongAddressRejectedWitness ==
    /\ Checked /\ ~tampered
    /\ "proof" \notin DOMAIN Unwrap(signing).document
    /\ Unwrap(verdict).signer_address # SignerAddress
    /\ Unwrap(verdict).result = "ErrBadProof"

\* the verificationMethod of the proof in the document is not the one the
\* proof was created with, the jws is the one it was created with
VerificationMethodSwapped ==
    /\ vc_document # None
    /\ ProofOf(Unwrap(vc_document))["verificationMethod"]
          # JStr(Unwrap(signing).verification_method)
    /\ ProofOf(Unwrap(vc_document))["jws"] = Unwrap(proof)["jws"]

\* C11: replacing the verification_method of an attached proof with a
\* different value, the jws left unchanged, makes check_assertion_proof
\* return ErrBadProof.
SwappedVerificationMethodRejected ==
    (Checked /\ VerificationMethodSwapped) =>
        Unwrap(verdict).result = "ErrBadProof"

\* the jws of the proof in the document
PresentedJws == ProofOf(Unwrap(vc_document))["jws"].v

\* a segment is valid base64url with 0, 1, 2 or 3 '=' added at its end
ValidWithSomePadding(seg) ==
    \E k \in 0..3 : Base64UrlDecode(AppendPad(seg, k)) # None

\* recover_address_and_data returned an error
RecoverFailed ==
    Unwrap(verdict).why = "could not recover address and data"

\* C12: recover_address_and_data accepts the payload segment and the
\* signature segment of a jws when they miss 0, 1, 2 or 3 '=' characters,
\* and returns an error when one of them is not valid base64url under any of
\* these paddings.
PaddingTolerance ==
    Checked =>
        (RecoverFailed <=>
            \E i \in {2, 3} : ~ValidWithSomePadding(PresentedJws[i]))

\* a jws whose payload segment misses two '=' and whose signature segment
\* was given the one it missed is accepted
PaddingToleranceWitness ==
    /\ Checked
    /\ PadOf(PresentedJws[2].len) - PresentedJws[2].pad = 2
    /\ PresentedJws[3].pad = 1 /\ PadOf(PresentedJws[3].len) = 1
    /\ Unwrap(verdict).result = "Ok"

\* a segment with more '=' than its length has is rejected
PaddingRejectedWitness ==
    /\ Checked
    /\ PresentedJws[3].pad > PadOf(PresentedJws[3].len)
    /\ RecoverFailed

(***************************************************************************)
(* Properties of the orchestrator                                          *)
(***************************************************************************)
\* an operation has returned
Returned == returned.op # "none"

\* the call is not for this component: another method, or options whose
\* type is not "cl"
Unrelated ==
    \/ returned.method # "did:evan"
    \/ returned.options \notin {"cl+auth", "cl"}

\* C13: every orchestrator operation returns Ignored, and not an error,
\* whenever method is not "did:evan" or options.type is not "cl", for every
\* options and payload input.
UnrelatedCallIgnored ==
    (Returned /\ Unrelated) => returned.status = "Ignored"

\* a call with another method is ignored whatever its options and payload
OtherMethodIgnored ==
    (Returned /\ returned.method # "did:evan") => returned.status = "Ignored"

\* the registry definition published under a DID
PublishedRegistryBody(did) == Unwrap(documents[did]).artifact.body

\* vc_zkp_verify_proof returned a ProofVerification
Verified ==
    /\ returned.op = "vc_zkp_verify_proof"
    /\ returned.status = "Ok"

\* the presentation that was verified, and its credential
VerifiedPresentation == Unwrap(returned.payload.presentation)

VerifiedCredential == VerifiedPresentation.credential

\* the presentation is what Prover::present_proof makes of a credential the
\* holder has finished
HonestPresentation(p) == p.credential.finished /\ p.valid

\* vc_zkp_revoke_credential returned the updated registry definition
Revoked ==
    /\ returned.op = "vc_zkp_revoke_credential"
    /\ returned.status = "Ok"

VerifiedWitness ==
    /\ Verified
    /\ HonestPresentation(VerifiedPresentation)
    /\ VerifiedCredential \in wallet
    /\ Unwrap(returned.value).status = "VERIFIED"

\* the documents are the ones published when the operation was called
NothingPublished == Some(documents) = returned.before

\* the artifact that was published under a DID when the operation was called
PublishedBefore(did) == Unwrap(Unwrap(returned.before)[did]).artifact

\* the answers of the resolver in the calls of the operation that returned
ResolveAnswers ==
    {returned.calls[i][3] : i \in {j \in DOMAIN returned.calls :
                                      returned.calls[j][1] = "resolve"}}

\* vc_zkp_revoke_credential was called for an id that was revoked in the
\* registry published under the DID of the payload
AlreadyRevoked ==
    /\ returned.op = "vc_zkp_revoke_credential"
    /\ returned.payload.ok
    /\ PublishedBefore(returned.payload.registry).kind = "registry"
    /\ Unwrap(returned.payload.revocation_id)
          \in PublishedBefore(returned.payload.registry).body.registry_delta

DocumentsResolved ==
    /\ returned.status # "Cancelled"
    /\ ResolveAnswers = {"found"}

\* vc_zkp_finish_credential was called with a credential whose signature the
\* holder had finished before
FinishedTwice ==
    /\ returned.op = "vc_zkp_finish_credential"
    /\ returned.payload.ok
    /\ Unwrap(returned.payload.credential).finished

\* C16: applying vc_zkp_finish_credential to a credential whose signature was
\* already finished fails with ErrSignatureInvalid instead of returning a
\* credential.
FinishTwiceRejected ==
    FinishedTwice =>
        /\ returned.status # "Ok"
        /\ returned.value = None
        /\ DocumentsResolved => returned.status = "ErrSignatureInvalid"

\* the credential is in the wallet as the first call returned it
FinishTwiceRejectedWitness ==
    /\ FinishedTwice
    /\ Unwrap(returned.payload.credential) \in wallet
    /\ Len(returned.calls) = 3
    /\ DocumentsResolved
    /\ returned.status = "ErrSignatureInvalid"

\* the first call returns the credential with the finished signature
FinishedWitness ==
    /\ returned.op = "vc_zkp_finish_credential"
    /\ returned.status = "Ok"
    /\ returned.value \subseteq wallet
    /\ Unwrap(returned.value).finished

\* the proof of the presentation does not verify against what is published
InvalidProof(p) ==
    \/ ~p.valid
    \/ p.accum # PublishedRegistryBody(p.credential.registry).registry
    \/ p.credential.revocation_id
          \in PublishedRegistryBody(p.credential.registry).registry

\* the statuses with which an operation returns an error
ErrorStatuses ==
    {"ErrMalformed", "ErrUnresolved", "ErrRegistry", "ErrSigner", "ErrCrypto",
     "ErrAlreadyRevoked", "ErrMissingRequired", "ErrRevocationIdReused",
     "ErrSignatureInvalid", "ErrBadProof"}

\* C17: vc_zkp_verify_proof on a well-formed payload whose proof is invalid
\* returns a successful result carrying a ProofVerification with status
\* FAILED and a reason; it returns an error only for malformed input or
\* unresolvable DIDs.
InvalidProofReturnsFailed ==
    returned.op = "vc_zkp_verify_proof" =>
        /\ (returned.payload.ok /\ DocumentsResolved) => returned.status = "Ok"
        /\ (Verified /\ InvalidProof(VerifiedPresentation)) =>
            /\ Unwrap(returned.value).status = "FAILED"
            /\ Unwrap(returned.value).reason # ""
        /\ returned.status \in ErrorStatuses =>
            \/ ~returned.payload.ok /\ returned.status = "ErrMalformed"
            \/ /\ ResolveAnswers \cap {"none", "err"} # {}
               /\ returned.status \in {"ErrUnresolved", "ErrRegistry"}

\* a forged proof of a finished credential that is not revoked
InvalidProofReturnsFailedWitness ==
    /\ Verified
    /\ ~VerifiedPresentation.valid
    /\ VerifiedCredential.finished
    /\ Len(returned.calls) = 3
    /\ Unwrap(returned.value) = [status |-> "FAILED", reason |-> "proof"]

\* a DID that is not resolved
UnresolvedWitness ==
    /\ returned.op = "vc_zkp_verify_proof"
    /\ returned.status = "ErrUnresolved"
    /\ Len(returned.calls) = 3

\* a write operation returned
WriteReturned == returned.op \in WriteOps

\* the artifact is complete: it is signed, and the proof is over it
Complete(artifact) ==
    artifact.proof = Some(AssertionProofOver([artifact EXCEPT !.proof = None]))

\* the collaborators' calls of the operation, in flight or returned
CallsMade == IF task.pc = "idle" THEN returned.calls ELSE task.calls

\* the calls of Registry.update among them
UpdateCalls == {i \in DOMAIN CallsMade : CallsMade[i][1] = "update"}

\* C18: in each issuer-side write operation, if the operation is cancelled
\* or fails at any suspension point, nothing of it is published; the only
\* registry write of the artifact happens after the artifact is completely
\* built and signed in memory.
NoPartialPublishedState ==
    /\ (WriteReturned /\ returned.status # "Ok") => NothingPublished
    /\ task.pc # "idle" => Some(documents) = task.before
    /\ \A d \in Dids :
        documents[d] # None => Complete(Unwrap(documents[d]).artifact)
    /\ \A i \in UpdateCalls :
        /\ i = Len(CallsMade)
        /\ Complete(CallsMade[i][3].artifact)
        /\ CallsMade[i - 1] = <<"sign", TRUE>>

\* a revocation is dropped while it waits for Registry.update: the DID still
\* holds the registry without the revocation
NoPartialPublishedStateWitness ==
    /\ returned.op = "vc_zkp_revoke_credential"
    /\ returned.status = "Cancelled"
    /\ returned.reason = "update"
    /\ NothingPublished
    /\ PublishedBefore(returned.payload.registry).body.registry = {}

\* a create operation fails at the signer: the DID it was given stays empty
FailedCreateWitness ==
    /\ returned.op = "vc_zkp_create_credential_definition"
    /\ returned.status = "ErrSigner"
    /\ NothingPublished
    /\ \E d \in allocated : documents[d] = None

\* the operation called Registry.update and the registry answered with an
\* error, with nothing, or no listener answered
UpdateRefused ==
    /\ WriteReturned
    /\ returned.calls # <<>>
    /\ returned.calls[Len(returned.calls)][1] = "update"
    /\ returned.calls[Len(returned.calls)][4] \notin UpdateAccepted

\* C19: when Registry.update fails (error or no listener) in an issuer-side
\* write operation, the operation returns an error without retry, returns no
\* artifact and no private material to the caller, and the document
\* previously published under that DID is unchanged.
FailedUpdateReturnsError ==
    UpdateRefused =>
        /\ returned.status = "ErrRegistry"
        /\ returned.value = None
        /\ returned.info = None
        /\ Cardinality({i \in DOMAIN returned.calls :
                            returned.calls[i][1] = "update"}) = 1
        /\ NothingPublished
        /\ task = Idle

\* the update of a revoked registry fails for want of a listener: the
\* registry published before is still there
FailedUpdateReturnsErrorWitness ==
    /\ UpdateRefused
    /\ returned.op = "vc_zkp_revoke_credential"
    /\ returned.calls[Len(returned.calls)][4] = "empty"
    /\ returned.status = "ErrRegistry"
    /\ documents[returned.payload.registry]
          = Unwrap(returned.before)[returned.payload.registry]
    /\ documents[returned.payload.registry] # None

\* the update of a new registry definition fails: its private keys are not
\* returned
FailedCreateUpdateWitness ==
    /\ UpdateRefused
    /\ returned.op = "vc_zkp_create_revocation_registry_definition"
    /\ returned.calls[Len(returned.calls)][4] = "err"
    /\ returned.value = None

\* the private material of the issuer
IssuerPrivate ==
    {"CredentialPrivateKey", "RevocationKeyPrivate", "RevocationIdInformation"}

\* what each write operation returns of it with its artifact
ReturnedPrivate(op) ==
    CASE op = "vc_zkp_create_credential_definition" -> {"CredentialPrivateKey"}
      [] op = "vc_zkp_create_revocation_registry_definition" ->
            {"RevocationKeyPrivate", "RevocationIdInformation"}
      [] OTHER -> {}

\* C20: in every orchestrator operation, the payload handed to
\* Registry.update contains only the public artifact; CredentialPrivateKey,
\* RevocationKeyPrivate and RevocationIdInformation appear only in the value
\* returned to the caller.
PrivateMaterialNotPublished ==
    /\ \A i \in UpdateCalls : CallsMade[i][3].private = {}
    /\ \A d \in Dids : documents[d] # None => Unwrap(documents[d]).private = {}
    /\ (WriteReturned /\ returned.status = "Ok") =>
        /\ Unwrap(returned.value).private = ReturnedPrivate(returned.op)
        /\ Unwrap(returned.value).artifact
              = Unwrap(documents[Unwrap(returned.value).artifact.id]).artifact
        /\ (returned.info # None)
              = ("RevocationIdInformation" \in ReturnedPrivate(returned.op))

\* a revocation registry definition is created: its private key and the
\* RevocationIdInformation are returned, the definition alone is published
PrivateMaterialNotPublishedWitness ==
    /\ returned.op = "vc_zkp_create_revocation_registry_definition"
    /\ returned.status = "Ok"
    /\ Unwrap(returned.value).private
          = {"RevocationKeyPrivate", "RevocationIdInformation"}
    /\ returned.info = Some(NewRevocationIdInformation)
    /\ \E d \in Dids :
        /\ documents[d] = Some(PublishedPayload(Unwrap(returned.value)))
        /\ Unwrap(documents[d]).private \cap IssuerPrivate = {}

\* a credential definition is created: its private key is returned
DefinitionPrivateKeyWitness ==
    /\ returned.op = "vc_zkp_create_credential_definition"
    /\ returned.status = "Ok"
    /\ Unwrap(returned.value).private = {"CredentialPrivateKey"}

\* the last call of the operation that returned is a call of the resolver,
\* and the resolver answered with the empty list
ResolvedEmpty ==
    /\ Returned
    /\ returned.calls # <<>>
    /\ returned.calls[Len(returned.calls)][1] = "resolve"
    /\ returned.calls[Len(returned.calls)][3] = "empty"

\* C21: whenever the Resolver returns an empty list for a DID an
\* orchestrator operation depends on, the operation returns the error
\* ErrUnresolved (an error value, not an abort), and performs no DID
\* creation and no registry write.
EmptyListUnresolved ==
    ResolvedEmpty =>
        /\ returned.status = "ErrUnresolved"
        /\ \A i \in DOMAIN returned.calls :
            returned.calls[i][1] \notin {"create", "update"}
        /\ NothingPublished

\* what does hold: the operation creates no DID and writes nothing
EmptyListWritesNothing ==
    ResolvedEmpty =>
        /\ returned.status = "Panic"
        /\ \A i \in DOMAIN returned.calls :
            returned.calls[i][1] \notin {"create", "update"}
        /\ NothingPublished

\* both operations are revocations of different ids in the registry under
\* the same DID, and both returned the updated registry definition
BothRevoked ==
    /\ Revoked
    /\ other.returned.op = "vc_zkp_revoke_credential"
    /\ other.returned.status = "Ok"
    /\ other.returned.payload.registry = returned.payload.registry
    /\ other.returned.payload.revocation_id # returned.payload.revocation_id

\* the registry_delta of the registry definition a revocation was computed
\* from: the one it returned without its own delta
RevokedBase(r) ==
    Unwrap(r.value).artifact.body.registry_delta \ r.payload.revocation_id

\* both revocations resolved the registry before either wrote it back
Overlapped == RevokedBase(returned) = RevokedBase(other.returned)

\* r was called when the registry that q returned was published
CalledAfter(r, q) ==
    Unwrap(r.before)[r.payload.registry] = Some(PublishedPayload(Unwrap(q.value)))

\* the revocations ran one after the other
OneAfterTheOther ==
    \/ CalledAfter(returned, other.returned)
    \/ CalledAfter(other.returned, returned)

\* the revocation ids of the two operations
BothIds == returned.payload.revocation_id \cup other.returned.payload.revocation_id

\* the deltas of the two revocations among the entries of a delta_history
DeltasIn(history) ==
    {id \in BothIds : \E i \in DOMAIN history : history[i] = {id}}

\* C22: when two vc_zkp_revoke_credential operations for different
\* revocation ids on the same registry both resolve the registry before
\* either writes back, the registry published after both writes contains the
\* delta and delta_history entry of only one of the two revocations; when
\* they run one after the other, it contains both.
ConcurrentRevocationsLoseUpdates ==
    BothRevoked =>
        LET published == PublishedRegistryBody(returned.payload.registry)
        IN  /\ Overlapped =>
                /\ Cardinality(published.registry_delta \cap BothIds) = 1
                /\ DeltasIn(published.delta_history)
                      = published.registry_delta \cap BothIds
                /\ \E r \in {returned, other.returned} :
                    published = Unwrap(r.value).artifact.body
            /\ OneAfterTheOther =>
                /\ BothIds \subseteq published.registry_delta
                /\ DeltasIn(published.delta_history) = BothIds

\* both revocations returned Ok and one of them is lost
ConcurrentRevocationsLoseUpdatesWitness ==
    /\ BothRevoked
    /\ Overlapped
    /\ ~OneAfterTheOther
    /\ Cardinality(PublishedRegistryBody(returned.payload.registry).registry) = 1
    /\ Len(PublishedRegistryBody(returned.payload.registry).delta_history) = 2

\* one after the other, both are kept
SerializedRevocationsWitness ==
    /\ BothRevoked
    /\ OneAfterTheOther
    /\ PublishedRegistryBody(returned.payload.registry).registry = BothIds
    /\ Len(PublishedRegistryBody(returned.payload.registry).delta_history) = 3

(***************************************************************************)
(* Calls of issue_credential on one RevocationIdInformation                *)
(***************************************************************************)
IssuedOk(call) == call.op = "issue" /\ call.result = "Ok"

\* C23: the assigned rev_idx depends only on the info handed in.  A call of
\* issue_credential that follows a successful one and is given the same
\* RevocationIdInformation is not rejected by the counter and, when it
\* succeeds, has the same rev_idx; a call given the info the previous one
\* returned has a different rev_idx, and one on the chain of write-backs a
\* rev_idx no earlier credential carries.
IssueCallsMustBeSerialized ==
    [][last'.op = "issue" =>
        /\ (IssuedOk(last) /\ last'.info_in = last.info_in) =>
            /\ last'.result # "ErrRevocationIdReused"
            /\ IssuedOk(last') => last'.rev_idx = last.rev_idx
        /\ (IssuedOk(last) /\ IssuedOk(last') /\ last'.info_in = last.info_out) =>
            last'.rev_idx # last.rev_idx
        /\ (IssuedOk(last') /\ chain') =>
            \A i \in 1..Len(credentials) :
                credentials[i] # Unwrap(last'.rev_idx)]_vars

\* two successful calls in a row carry the same rev_idx
IssueCallsMustBeSerializedWitness ==
    /\ IssuedOk(last)
    /\ ~chain
    /\ Len(credentials) >= 2
    /\ credentials[Len(credentials)] = credentials[Len(credentials) - 1]
    /\ last.info_in = Some(NewRevocationIdInformation)

(***************************************************************************)
(* Properties of create_credential_schema and create_credential_definition *)
(***************************************************************************)
CreatedOk == created # None /\ Unwrap(created).status = "Ok"

CreatedValue == Unwrap(Unwrap(created).value)

\* C24: a schema returned by create_credential_schema has id = assigned_did,
\* author = issuer_did and the given properties and additional_properties; a
\* definition returned by create_credential_definition has id = assigned_did,
\* issuer = issuer_did and schema = schema.id; serialized, either passes
\* check_assertion_proof for the address of the proving key.
CreatedArtifactCarriesInputs ==
    CreatedOk =>
        LET c == Unwrap(created)
        IN  /\ CreatedValue["id"] = JStr(c.assigned_did)
            /\ c.op = "create_credential_schema" =>
                /\ CreatedValue["author"] = JStr(c.issuer_did)
                /\ CreatedValue["properties"] = PropertiesValue(c.properties)
                /\ CreatedValue["additional_properties"] =
                      JBool(c.additional_properties)
            /\ c.op = "create_credential_definition" =>
                /\ CreatedValue["issuer"] = JStr(c.issuer_did)
                /\ CreatedValue["schema"] = JStr(c.schema_id)
            /\ vc_document # None =>
                CheckAssertionProof(Unwrap(vc_document),
                                    "0x" \o AddressOf(c.private_key)).result = "Ok"
            /\ (verdict # None
                    /\ Unwrap(verdict).signer_address
                          = "0x" \o AddressOf(c.private_key)) =>
                Unwrap(verdict).result = "Ok"

CreatedArtifactCarriesInputsWitness ==
    /\ CreatedOk
    /\ Unwrap(created).op = "create_credential_definition"
    /\ Unwrap(created).schema_id # Unwrap(created).assigned_did
    /\ verdict # None
    /\ Unwrap(verdict).why = "vc document is valid"

CreatedSchemaChecked ==
    /\ CreatedOk
    /\ Unwrap(created).op = "create_credential_schema"
    /\ Unwrap(created).properties = Names
    /\ verdict # None
    /\ Unwrap(verdict).why = "vc document is valid"

(***************************************************************************)
(* Properties of revoke_credential                                         *)
(***************************************************************************)
\* the step is a successful revoke_credential
RevokedOk == rev_reg_def # None /\ last'.op = "revoke" /\ last'.result = "Ok"

DefBefore == Unwrap(rev_reg_def)

DefAfter == Unwrap(rev_reg_def')

\* C25: delta_history is append-only.  The registry definition of
\* create_revocation_registry_definition has exactly one entry; every
\* successful revoke_credential adds one entry at the end and keeps the
\* entries before it, in their order; no other operation changes it.  So K
\* revocations one after the other leave K+1 entries.
DeltaHistoryAppendOnly ==
    [][/\ (rev_reg_def = None /\ rev_reg_def' # None) =>
            Len(DefAfter.delta_history) = 1
       /\ RevokedOk =>
            /\ Len(DefAfter.delta_history) = Len(DefBefore.delta_history) + 1
            /\ SubSeq(DefAfter.delta_history, 1, Len(DefBefore.delta_history))
                  = DefBefore.delta_history
       /\ (rev_reg_def # None /\ ~RevokedOk) =>
            DefAfter.delta_history = DefBefore.delta_history]_vars

\* two revocations after the creation: three entries
DeltaHistoryAppendOnlyWitness ==
    /\ rev_reg_def # None
    /\ Len(Unwrap(rev_reg_def).delta_history) = 3
    /\ Unwrap(rev_reg_def).delta_history[2] # Unwrap(rev_reg_def).delta_history[3]
    /\ last.op = "revoke" /\ last.result = "Ok"

RECURSIVE MergeAll(_)
\* the deltas of a history merged, from the first to the last
MergeAll(history) ==
    IF history = <<>> THEN {}
    ELSE Merge(MergeAll(SubSeq(history, 1, Len(history) - 1)),
               history[Len(history)])

\* C26: in every registry definition revoke_credential returns, registry is
\* Registry::from(registry_delta) and registry_delta is the input's
\* registry_delta merged with the delta of this revocation; so the
\* accumulator is the one of the merge of all deltas of the history.
RegistryDerivedFromDelta ==
    [][RevokedOk =>
        LET delta == CryptoRevokeCredential(DefBefore, Unwrap(last'.rev_idx)).delta
        IN  /\ DefAfter.registry = RegistryFrom(DefAfter.registry_delta)
            /\ DefAfter.registry_delta = Merge(DefBefore.registry_delta, delta)
            /\ DefAfter.registry = RegistryFrom(MergeAll(DefAfter.delta_history))]_vars

\* both ids are revoked, the second one last
RegistryDerivedFromDeltaWitness ==
    /\ rev_reg_def # None
    /\ last.op = "revoke" /\ last.result = "Ok"
    /\ last.rev_idx = Some(U32(2))
    /\ Unwrap(rev_reg_def).registry = {U32(1), U32(2)}

\* C27: revoke_credential returns a registry definition whose id,
\* credential_definition, maximum_credential_count, revocation_public_key and
\* tails are the input's, and a revoke_credential that fails leaves the
\* definition the caller holds as it is.
RevokeKeepsFrame ==
    [][(rev_reg_def # None /\ last'.op = "revoke") =>
        IF last'.result = "Ok"
        THEN /\ DefAfter.id = DefBefore.id
             /\ DefAfter.credential_definition = DefBefore.credential_definition
             /\ DefAfter.maximum_credential_count = DefBefore.maximum_credential_count
             /\ DefAfter.revocation_public_key = DefBefore.revocation_public_key
             /\ DefAfter.tails = DefBefore.tails
             /\ DefAfter # DefBefore
        ELSE DefAfter = DefBefore]_vars

\* a first revocation in a registry of two
RevokeKeepsFrameWitness ==
    /\ rev_reg_def # None
    /\ last.op = "revoke" /\ last.result = "Ok"
    /\ Unwrap(rev_reg_def).maximum_credential_count = U32(2)
    /\ Unwrap(rev_reg_def).registry = {U32(2)}

\* vc_zkp_revoke_credential returned the updated registry definition
RevocationReturned ==
    /\ returned.op = "vc_zkp_revoke_credential"
    /\ returned.status = "Ok"

\* C28: the registry definition revoke_credential returns carries an
\* assertion proof made over the updated definition with the proof cleared;
\* it is not the proof of the definition that was given, and it is what is
\* published, so every published registry definition carries the proof over
\* its own content.
RevokedRegistryFreshlySigned ==
    /\ RevocationReturned =>
        LET given == PublishedBefore(returned.payload.registry)
            out == Unwrap(returned.value).artifact
        IN  /\ out.body = RevokedDefinition(given.body,
                                            {Unwrap(returned.payload.revocation_id)})
            /\ out.proof = Some(AssertionProofOver([out EXCEPT !.proof = None]))
            /\ out.proof # given.proof
            /\ documents[given.id] = Some(Serialized(out, {}))
    /\ \A d \in Dids :
        (documents[d] # None /\ Unwrap(documents[d]).artifact.kind = "registry") =>
            Complete(Unwrap(documents[d]).artifact)

\* the second revocation in a registry: the definition given was signed by
\* the first
RevokedRegistryFreshlySignedWitness ==
    /\ RevocationReturned
    /\ Len(PublishedBefore(returned.payload.registry).body.delta_history) = 2
    /\ Len(Unwrap(returned.value).artifact.body.delta_history) = 3

(***************************************************************************)
(* One call of issue_credential: the counter at the maximum, and the       *)
(* values that are signed                                                  *)
(***************************************************************************)
AtMaximum == Called /\ InfoIn.next_unused_id = Unwrap(last.max)

\* C29: issue_credential called with next_unused_id equal to
\* maximum_credential_count is not refused for the counter's sake: when no
\* other step fails it succeeds, assigns rev_idx = maximum_credential_count
\* and returns next_unused_id = maximum_credential_count + 1.
CounterAtMaximumAccepted ==
    AtMaximum =>
        /\ last.result \in {"Ok", "ErrMissingRequired", "ErrCrypto",
                            "ErrRevocationIdReused"}
        /\ last.result = "ErrRevocationIdReused" =>
            InfoIn.next_unused_id \in InfoIn.used_ids
        /\ OtherStepsPass =>
            /\ last.result = "Ok"
            /\ last.rev_idx = last.max
            /\ Unwrap(last.info_out).next_unused_id = WrappingAdd1(Unwrap(last.max))
            /\ Unwrap(last.info_out).used_ids
                  = InfoIn.used_ids \cup {Unwrap(last.max)}

CounterAtMaximumAcceptedWitness ==
    /\ AtMaximum
    /\ last.result = "Ok"
    /\ last.max = Some(U32(2))
    /\ Unwrap(last.info_out).next_unused_id = U32(3)

\* C30: in every successful issue_credential the request handed to the CL
\* signer has a value for every property of the schema: the value of the
\* request for a property it supplied, the encoding of "null" for an optional
\* property it omitted; the values of the request are handed on as they are.
FullAttributeSet ==
    (Called /\ last.result = "Ok") =>
        /\ \A f \in last.schema.properties :
            /\ f \in DOMAIN last.signed_values
            /\ last.signed_values[f] =
                  IF f \in last.request.credential_values
                  THEN RequestValue(f)
                  ELSE "null"
            /\ f \notin last.request.credential_values =>
                  f \notin last.schema.required
        /\ \A f \in last.request.credential_values :
            /\ f \in DOMAIN last.signed_values
            /\ last.signed_values[f] = RequestValue(f)

\* one property supplied, one optional property omitted
FullAttributeSetWitness ==
    /\ Called
    /\ last.result = "Ok"
    /\ last.schema.properties = {"a", "b"}
    /\ last.schema.required = {"a"}
    /\ last.request.credential_values = {"a"}
    /\ last.signed_values["b"] = "null"

(***************************************************************************)
(* Order of the collaborators' calls in the operations that create an      *)
(* artifact                                                                *)
(***************************************************************************)
CreateOps ==
    {"vc_zkp_create_credential_schema", "vc_zkp_create_credential_definition",
     "vc_zkp_create_revocation_registry_definition"}

\* the operation the calls made belong to
CallingOp == IF task.pc = "idle" THEN returned.op ELSE task.op

\* the positions of the calls of one collaborator
CallsOf(kind) == {i \in DOMAIN CallsMade : CallsMade[i][1] = kind}

\* the DIDs a create operation depends on
DependentDids(op) ==
    IF op = "vc_zkp_create_credential_schema" THEN 0 ELSE 1

\* C31: in the operations that create a schema, a credential definition or a
\* revocation registry definition, every dependent DID is resolved before
\* Registry.create is called, Registry.create is called once at most and
\* before the signer, Registry.update is called once at most, after the
\* signer has signed and with the DID Registry.create returned, and a result
\* is returned only after Registry.update was called and succeeded.
CreateStepsInOrder ==
    CallingOp \in CreateOps =>
        /\ \A i \in CallsOf("resolve"), j \in CallsOf("create") : i < j
        /\ CallsOf("create") # {} =>
            Cardinality({k \in CallsOf("resolve") : CallsMade[k][3] = "found"})
                = DependentDids(CallingOp)
        /\ Cardinality(CallsOf("create")) <= 1
        /\ \A i \in CallsOf("create"), j \in CallsOf("sign") : i < j
        /\ \A j \in CallsOf("sign") : CallsOf("create") # {}
        /\ Cardinality(CallsOf("update")) <= 1
        /\ \A j \in CallsOf("update") :
            /\ j = Len(CallsMade)
            /\ CallsMade[j - 1] = <<"sign", TRUE>>
            /\ \E i \in CallsOf("create") : CallsMade[i][3] = Some(CallsMade[j][2])
        /\ (task.pc = "idle" /\ returned.status = "Ok") =>
            /\ Cardinality(CallsOf("create")) = 1
            /\ Cardinality(CallsOf("update")) = 1
            /\ CallsMade[Len(CallsMade)][4] \in UpdateAccepted
            /\ Unwrap(returned.value).artifact.id = CallsMade[Len(CallsMade)][2]

\* a revocation registry definition was created after a credential definition
CreateStepsInOrderWitness ==
    /\ task.pc = "idle"
    /\ returned.op = "vc_zkp_create_revocation_registry_definition"
    /\ returned.status = "Ok"
    /\ Len(returned.calls) = 4
    /\ returned.calls[2][3] = Some(DidOrder[3])

(***************************************************************************)
(* Properties of check_assertion_proof on a jws that is not well formed    *)
(* (SpecMalformed)                                                         *)
(***************************************************************************)
\* the jws has fewer than three segments
FewerSegments == Len(PresentedJws) < 3

\* the signature segment decodes to fewer than 65 bytes
ShortSignature ==
    /\ ~FewerSegments
    /\ ValidWithSomePadding(PresentedJws[3])
    /\ PresentedJws[3].len < 65

\* a segment that is read does not decode
DecodeError ==
    /\ ~FewerSegments
    /\ \E i \in {2, 3} : ~ValidWithSomePadding(PresentedJws[i])

\* one of the causes for which verification has to fail
BadProofCause ==
    \/ FewerSegments
    \/ ShortSignature
    \/ DecodeError
    \/ tampered
    \/ Unwrap(verdict).signer_address # SignerAddress

\* C32: check_assertion_proof returns ErrBadProof, never ok and never an
\* abort, when the jws does not decode, the signature does not recover, the
\* payload's doc differs from the presented document or the recovered address
\* differs from the expected one, a jws of fewer than three segments and a
\* signature of fewer than 65 bytes included.
BadProofIsAnError ==
    (Checked /\ BadProofCause) => Unwrap(verdict).result = "ErrBadProof"

\* what holds: such a document is never accepted, and the result is an
\* error unless the jws lacks a segment or the signature lacks bytes, in
\* which case the call panics
BadProofIsNeverAccepted ==
    (Checked /\ BadProofCause) =>
        /\ Unwrap(verdict).result # "Ok"
        /\ (Unwrap(verdict).result = "Panic") <=>
              (FewerSegments \/ (ShortSignature /\ ~DecodeError))

ShortJwsPanics ==
    /\ Checked
    /\ FewerSegments
    /\ Unwrap(verdict).result = "Panic"

(***************************************************************************)
(* Properties of check_assertion_proof on unsigned documents               *)
(* (SpecUnsigned)                                                          *)
(***************************************************************************)
\* the presented document has no proof member, or a proof that is null
Unsigned ==
    LET vc == from_str(Unwrap(vc_document))
    IN  "proof" \in DOMAIN vc => vc["proof"] = JNull

\* C33: a document that has no proof member, or whose proof is null, is
\* accepted by check_assertion_proof for every expected signer address; the
\* call returns before any signature is recovered.
UnsignedDocumentAccepted ==
    (Checked /\ Unsigned) =>
        /\ Unwrap(verdict).result = "Ok"
        /\ Unwrap(verdict).why = "vcs without a proof are considered as valid"

\* a signed document whose proof was set to null is accepted for the address
\* of another key
UnsignedDocumentAcceptedWitness ==
    /\ Checked
    /\ signing # None
    /\ Unsigned
    /\ "proof" \in DOMAIN from_str(Unwrap(vc_document))
    /\ Unwrap(verdict).signer_address # SignerAddress
    /\ Unwrap(verdict).result = "Ok"

\* a document without a proof member that was never signed
NeverSignedAccepted ==
    /\ Checked
    /\ signing = None
    /\ "proof" \notin DOMAIN from_str(Unwrap(vc_document))
    /\ Unwrap(verdict).result = "Ok"

(***************************************************************************)
(* One call of issue_credential: the counter at the largest u32            *)
(***************************************************************************)
AtU32Max == Called /\ InfoIn.next_unused_id = U32Max

\* C34: the revocation-id counter does not wrap: issue_credential never
\* returns a RevocationIdInformation whose next_unused_id is not greater than
\* the rev_idx it assigned (in particular not 0, for next_unused_id = 2^32 - 1).
CounterDoesNotWrap ==
    (Called /\ last.info_out # None) =>
        U32Lt(Unwrap(last.rev_idx), Unwrap(last.info_out).next_unused_id)

\* below the largest u32 the returned counter is the assigned id plus one
CounterAdvancesBelowU32Max ==
    (Called /\ last.info_out # None /\ ~AtU32Max) =>
        /\ U32Lt(Unwrap(last.rev_idx), Unwrap(last.info_out).next_unused_id)
        /\ Unwrap(last.info_out).next_unused_id = WrappingAdd1(Unwrap(last.rev_idx))

\* at the largest u32 the call panics or returns the counter 0
CounterAtU32Max ==
    (/\ AtU32Max
     /\ \A f \in last.schema.properties \cap last.schema.required :
            f \in last.request.credential_values
     /\ last.request.valid_secrets
     /\ InfoIn.next_unused_id \notin InfoIn.used_ids) =>
        \/ last.result = "Panic" /\ last.info_out = None
        \/ last.result = "Ok" /\ Unwrap(last.info_out).next_unused_id = U32(0)

WrappedCounterReturned ==
    /\ AtU32Max
    /\ last.result = "Ok"
    /\ last.rev_idx = Some(U32Max)
    /\ Unwrap(last.info_out).next_unused_id = U32(0)

(***************************************************************************)
(* The DID vc_zkp_revoke_credential writes the updated registry under      *)
(* (SpecMirrored, SpecCredential)                                          *)
(***************************************************************************)
Revoking == CallingOp = "vc_zkp_revoke_credential"

\* the payload of the operation the calls made belong to
CallingPayload == IF task.pc = "idle" THEN returned.payload ELSE task.payload

\* C35: vc_zkp_revoke_credential writes the updated registry back under the
\* DID it resolved the registry from (payload.revocation_registry_definition),
\* whatever the id field of the resolved document.
RevokeWritesUnderPayloadDid ==
    Revoking =>
        \A i \in UpdateCalls : CallsMade[i][2] = CallingPayload.registry

\* the write goes to the DID in the id field of the resolved document, which
\* is the last DID with that document resolved before
RevokeWritesUnderDocumentId ==
    Revoking =>
        \A i \in UpdateCalls :
            /\ CallsMade[i][2] = CallsMade[i][3].artifact.id
            /\ \E j \in CallsOf("resolve") :
                /\ j < i
                /\ CallsMade[j] = <<"resolve", CallingPayload.registry, "found">>

\* a revocation through the mirroring DID returned Ok and wrote the registry
\* of the other DID; the document of the DID it resolved is as before
RevokedThroughMirror ==
    /\ task.pc = "idle"
    /\ returned.op = "vc_zkp_revoke_credential"
    /\ returned.status = "Ok"
    /\ returned.payload.registry = DidOrder[1]
    /\ \E i \in UpdateCalls : CallsMade[i][2] = DidOrder[3]
    /\ documents[DidOrder[1]] = Unwrap(returned.before)[DidOrder[1]]
    /\ documents[DidOrder[3]] # Unwrap(returned.before)[DidOrder[3]]

(***************************************************************************)
(* Calls of issue_credential that fail (Spec)                              *)
(***************************************************************************)
IssueFailed(call) == call.op = "issue" /\ call.result # "Ok"

\* C36: a call of issue_credential that fails (a required property is
\* missing, the id is already used, signing fails) returns no
\* RevocationIdInformation and no rev_idx and leaves the information the
\* issuer holds as it was, so the failed issuance consumes no revocation id:
\* the next successful call from the same information assigns the id the
\* failed one would have used, and marks only that id as used.
FailedIssuanceConsumesNoId ==
    [][last'.op = "issue" =>
        /\ IssueFailed(last') =>
            /\ last'.info_out = None
            /\ last'.rev_idx = None
            /\ revocation_info' = revocation_info
            /\ credentials' = credentials
        /\ (IssueFailed(last) /\ IssuedOk(last')
                /\ last'.info_in = last.info_in) =>
            /\ last'.rev_idx = Some(Unwrap(last.info_in).next_unused_id)
            /\ Unwrap(last'.info_out).used_ids
                  = Unwrap(last.info_in).used_ids \cup last'.rev_idx]_vars

\* after one credential was issued, a call from the information written back
\* failed at signing, and the issuer still holds that information
FailedIssuanceConsumesNoIdWitness ==
    /\ IssueFailed(last)
    /\ last.result = "ErrCrypto"
    /\ last.signed
    /\ Len(credentials) = 1
    /\ revocation_info = last.info_in
    /\ Unwrap(last.info_in).next_unused_id = U32(2)
    /\ Unwrap(last.info_in).used_ids = {U32(1)}

(***************************************************************************)
(* Operations that are not meant for this plugin (SpecCall)                *)
(***************************************************************************)
\* the options parse and name a type other than "cl", or none
OtherType(options) ==
    /\ ParseTypeOptions(options).ok
    /\ ParseTypeOptions(options).type # Some("cl")

\* C37: an operation that returns Ignored has no side effects: when method is
\* not "did:evan" or the type of the options is not "cl", the operation calls
\* neither Resolver.resolve nor Registry.create nor Registry.update nor the
\* signer, and it returns Ignored whether its payload parses or not.
IgnoredHasNoSideEffects ==
    Returned =>
        /\ returned.status = "Ignored" =>
            /\ returned.calls = <<>>
            /\ NothingPublished
            /\ returned.value = None
            /\ returned.info = None
        /\ (returned.method # "did:evan"
                \/ ParseTypeOptions(returned.options).type # Some("cl")) =>
            /\ returned.calls = <<>>
            /\ NothingPublished
        /\ (returned.method # "did:evan" \/ OtherType(returned.options)) =>
            returned.status = "Ignored"

\* vc_zkp_revoke_credential for this method with options of another type and
\* a payload that does not parse
IgnoredHasNoSideEffectsWitness ==
    /\ Returned
    /\ returned.op = "vc_zkp_revoke_credential"
    /\ returned.method = "did:evan"
    /\ returned.options = "other"
    /\ ~returned.payload.ok
    /\ returned.status = "Ignored"
    /\ returned.calls = <<>>

(***************************************************************************)
(* The credential subject of an issued credential (SpecIssue)              *)
(***************************************************************************)
\* C38: in every credential returned by issue_credential the keys of
\* credential_subject.data are exactly the schema properties the request
\* supplied a value for: optional properties that were omitted (signed as
\* "null") and request values whose name is not a schema property are absent
\* from data, while the request values outside the schema are part of the
\* signed request.
SubjectDataIsSuppliedSchemaProperties ==
    (Called /\ last.result = "Ok") =>
        /\ last.data = last.schema.properties \cap last.request.credential_values
        /\ \A f \in last.schema.properties \ last.request.credential_values :
            /\ f \notin last.data
            /\ last.signed_values[f] = "null"
        /\ \A f \in last.request.credential_values \ last.schema.properties :
            /\ f \notin last.data
            /\ f \in DOMAIN last.signed_values
            /\ last.signed_values[f] = RequestValue(f)

\* a request that omits the optional property b and carries a value whose
\* name is not in the schema
SubjectDataWitness ==
    /\ Called
    /\ last.result = "Ok"
    /\ last.schema.properties = {"a", "b"}
    /\ last.schema.required = {"a"}
    /\ last.request.credential_values = {"a", Extra}
    /\ last.data = {"a"}
    /\ last.signed_values["b"] = "null"
    /\ last.signed_values[Extra] = RequestValue(Extra)
====
